---------------------------- MODULE Spec2Model ----------------------------
(***************************************************************************)
(* Gesture classification engine of CrowdOrganHost: GestureHistory and the *)
(* three detectors (VoiceGestureDetector, ZoneGestureDetector,             *)
(* GlobalGestureDetector).                                                 *)
(*                                                                         *)
(* Numbers.  Every float of the program is a fixed-point integer counted   *)
(* in thousandths (Scale = 1000 is the float 1.0), timestamps are integer  *)
(* milliseconds as in the program.  Quotients truncate.                    *)
(***************************************************************************)
EXTENDS Integers, Sequences, FiniteSets, TLC

Scale == 1000

(* ---- VoiceGestureDetector::Config ------------------------------------- *)
raiseDeltaY == 180
lowerDeltaY == 180
swipeDeltaX == 250
swipeOrthogonalityTenths == 16
raiseHorizontalLimit == 120
swipeVerticalLimit == 180
shakeRadius == 80
shakeMinSignFlips == 4
shakeMinMotion == 80
burstSpeedThreshold == 1500
burstMaxSpeed == 3500
holdMotionThreshold == 50
holdDurationMs == 1200
minWindowMs == 400
maxWindowMs == 1200
gestureCooldownMs == 900
burstCooldownMs == 600
holdCooldownMs == 1800

(* ---- ZoneGestureDetector::Config -------------------------------------- *)
zoneHistoryMs == 2000
sweepWindowMs == 900
sweepMinSteps == 3
sweepMinStrength == 250
sweepCooldownMs == 1600
pulseThreshold == 350
pulseSlopeThreshold == 50
pulseCooldownMs == 900

(* ---- GlobalGestureDetector::Config ------------------------------------ *)
globalHistoryMs == 5000
eruptionLow == 250
eruptionHigh == 700
eruptionCooldownMs == 4500
eruptionWindowMs == 1200
stillnessMotionThreshold == 220
stillnessDurationMs == 3000
stillnessMinVoices == 3
stillnessCooldownMs == 6000

(* ---- GestureHistory ---------------------------------------------------- *)
defaultCapacity == 45

(* ---- ofApp ------------------------------------------------------------- *)
voiceHistoryCapacity == 60
staleMs == 2500
enableSending == TRUE

(* ---- bounds of the model ----------------------------------------------- *)
MaxHist == 4            \* longest entity history the model lets grow
MaxCapacityArg == 2     \* setCapacity is called with 0..MaxCapacityArg
MaxClockVoice == 2000   \* last timestamp of a run on the voice side
MaxClockZone == 3150    \* last timestamp of a run on the zone detector
MaxClockCell == 1600    \* last timestamp of a run on one cell of a camera
MaxClockGlobal == 13500 \* last timestamp of a run on the global detector
MaxGlobalHist == 5      \* longest room history the model lets grow
MaxClockDriver == 5400  \* last timestamp of a run of the whole application
MaxClockCams == 2700    \* last timestamp of a run on two cameras

Voices == {1}
Cams == {0}
None == -1

VoiceTypes == {"raise", "lower", "swipe_left", "swipe_right", "shake", "burst", "hold"}

(* ---- arithmetic helpers ------------------------------------------------ *)
Abs(a) == IF a < 0 THEN -a ELSE a
Min2(a, b) == IF a < b THEN a ELSE b
Max2(a, b) == IF a > b THEN a ELSE b

\* C++ division of floats, kept to thousandths: truncates toward zero.
Quot(a, b) == IF a >= 0 THEN a \div b ELSE -((-a) \div b)

\* a clamp that forgets the upper end
clampFloor(value) == IF value < 0 THEN 0 ELSE value

\* ofClamp(value, 0.0f, 1.0f)
clamp01(value) == IF value < 0 THEN 0 ELSE IF value > Scale THEN Scale ELSE value

\* a / b as a float in thousandths
Ratio(a, b) == Quot(a * Scale, b)

RECURSIVE IsqrtStep(_, _, _)
\* binary search for floor(sqrt(n)) in lo..hi
IsqrtStep(n, lo, hi) ==
    IF lo >= hi THEN lo
    ELSE LET mid == (lo + hi + 1) \div 2
         IN IF mid * mid <= n THEN IsqrtStep(n, mid, hi) ELSE IsqrtStep(n, lo, mid - 1)

\* glm::length of a vec3
Length3(x, y, z) == LET n == x * x + y * y + z * z IN IsqrtStep(n, 0, Max2(1, Abs(x) + Abs(y) + Abs(z)))

\* std::unordered_map::erase(key)
MapErase(m, k) == [j \in (DOMAIN m) \ {k} |-> m[j]]
\* m[k] = v, creating the entry when absent
MapPut(m, k, v) == [j \in (DOMAIN m) \cup {k} |-> IF j = k THEN v ELSE m[j]]

VARIABLES
    unit,                  \* what a run drives: "voice", "zone", "cell" (one cell of a camera),
                           \* "cams" (two cameras), "global" or "driver" (the application)
    clock,                 \* the caller's monotonic millisecond counter
    capacity,              \* GestureHistory::capacity
    histories,             \* GestureHistory::histories
    voiceLastTriggerTimes, \* VoiceGestureDetector::lastTriggerTimes
    voiceEvents,           \* outEvents of the last updateVoice call
    zoneHistories,         \* ZoneGestureDetector::histories
    zoneLastTriggerTimes,  \* ZoneGestureDetector::lastTriggerTimes
    pulseTrackers,         \* ZoneGestureDetector::pulseTrackers
    zoneEvents,            \* outEvents of the last updateCamera call
    globalHistory,         \* GlobalGestureDetector::history
    lastEruption,          \* GlobalGestureDetector::lastEruption
    lastStillness,         \* GlobalGestureDetector::lastStillness
    stillnessStart,        \* GlobalGestureDetector::stillnessStart
    globalEvents,          \* outEvents of the last GlobalGestureDetector::update call
    lastOp,                \* observer: the call that produced this state
    callTime,              \* observer: the timestamp that call worked with
    lastEmit,              \* observer: per owner and type, time of the last event since the owner was created
    prevEmit,              \* observer: lastEmit as it was before the last call
    goneEmit,              \* observer: per owner and type, the last event before the owner was removed
    watch,                 \* observer: what the room has been fed since construction or reset,
                           \* and each camera since it was first seen or last removed
    voices,                \* ofApp::voices, each voice by its lastUpdate
    lastGlobalMotion,      \* ofApp::lastGlobalMotion
    sent                   \* the messages handed to gestureSender during the last ofApp::update

voiceVars == <<capacity, histories, voiceLastTriggerTimes, voiceEvents>>
zoneVars == <<zoneHistories, zoneLastTriggerTimes, pulseTrackers, zoneEvents>>
globalVars == <<globalHistory, lastEruption, lastStillness, stillnessStart, globalEvents>>
observerVars == <<lastOp, callTime, lastEmit, prevEmit, goneEmit, watch>>
driverVars == <<voices, lastGlobalMotion, sent>>
vars == <<unit, clock, voiceVars, zoneVars, globalVars, observerVars, driverVars>>

(***************************************************************************)
(* GestureHistory                                                          *)
(***************************************************************************)
Vec3Sub(a, b) == <<a[1] - b[1], a[2] - b[2], a[3] - b[3]>>
ZeroVec == <<0, 0, 0>>

\* the trim with the comparison off by one: a deque one past the capacity is kept
TrimPastCapacity(history, cap) ==
    IF Len(history) > cap + 1 THEN SubSeq(history, Len(history) - cap + 1, Len(history)) ELSE history

\* the trim popping from the back: the oldest samples are the ones kept
TrimToCapacityFromBack(history, cap) ==
    IF Len(history) > cap THEN SubSeq(history, 1, cap) ELSE history

\* while (history.size() > capacity) history.pop_front();
TrimToCapacity(history, cap) ==
    IF Len(history) > cap THEN SubSeq(history, Len(history) - cap + 1, Len(history)) ELSE history

\* the velocity derived without converting the milliseconds to seconds
DerivedVelocityPerMs(history, position, timestampMs) ==
    IF history = <<>> THEN ZeroVec
    ELSE LET prev == history[Len(history)]
             dtMs == IF timestampMs > prev.timestamp THEN timestampMs - prev.timestamp ELSE 0
             d == Vec3Sub(position, prev.position)
         IN IF dtMs > 0
            THEN <<Quot(d[1], dtMs), Quot(d[2], dtMs), Quot(d[3], dtMs)>>
            ELSE ZeroVec

\* velocity derived by addSample from the previous sample
DerivedVelocity(history, position, timestampMs) ==
    IF history = <<>> THEN ZeroVec
    ELSE LET prev == history[Len(history)]
             dtMs == IF timestampMs > prev.timestamp THEN timestampMs - prev.timestamp ELSE 0
             d == Vec3Sub(position, prev.position)
         IN IF dtMs > 0
            THEN <<Quot(d[1] * 1000, dtMs), Quot(d[2] * 1000, dtMs), Quot(d[3] * 1000, dtMs)>>
            ELSE ZeroVec

\* addSample putting the new sample at the front of the deque
AddedHistoryAtFront(history, position, motion, energy, timestampMs, cap) ==
    LET sample == [timestamp |-> timestampMs, position |-> position,
                   velocity |-> DerivedVelocity(history, position, timestampMs),
                   motion |-> motion, energy |-> energy]
    IN TrimToCapacity(<<sample>> \o history, cap)

\* the deque of voiceId after addSample
AddedHistory(history, position, motion, energy, timestampMs, cap) ==
    LET sample == [timestamp |-> timestampMs, position |-> position,
                   velocity |-> DerivedVelocity(history, position, timestampMs),
                   motion |-> motion, energy |-> energy]
    IN TrimToCapacity(Append(history, sample), cap)

hasVoice(voiceId) == voiceId \in DOMAIN histories

\* getHistory: the stored deque, or None for "not found"
getHistory(voiceId) == IF voiceId \in DOMAIN histories THEN histories[voiceId] ELSE None

(***************************************************************************)
(* VoiceGestureDetector                                                    *)
(***************************************************************************)
\* canTrigger with the cooldown left out of the comparison
VoiceCanTriggerAnyTime(times, voiceId, type, timestamp, cooldownMs) ==
    IF voiceId \notin DOMAIN times THEN TRUE
    ELSE IF type \notin DOMAIN times[voiceId] THEN TRUE
    ELSE timestamp >= times[voiceId][type]

\* canTrigger looking the type up under every owner of the ledger
VoiceCanTriggerAnyOwner(times, voiceId, type, timestamp, cooldownMs) ==
    \A o \in DOMAIN times :
        type \in DOMAIN times[o] => timestamp >= times[o][type] + cooldownMs

VoiceCanTrigger(times, voiceId, type, timestamp, cooldownMs) ==
    IF voiceId \notin DOMAIN times THEN TRUE
    ELSE IF type \notin DOMAIN times[voiceId] THEN TRUE
    ELSE timestamp >= times[voiceId][type] + cooldownMs

\* rememberTrigger assigning the owner a map that holds the one type
VoiceRememberTriggerOnly(times, voiceId, type, timestamp) ==
    MapPut(times, voiceId, MapPut(<<>>, type, timestamp))

VoiceRememberTrigger(times, voiceId, type, timestamp) ==
    MapPut(times, voiceId,
           MapPut(IF voiceId \in DOMAIN times THEN times[voiceId] ELSE <<>>, type, timestamp))

RECURSIVE FirstAtOrAfter(_, _, _)
\* the scan for startIdx (1-based); the first index when none qualifies
FirstAtOrAfter(samples, i, minTimestamp) ==
    IF i > Len(samples) THEN 1
    ELSE IF samples[i].timestamp >= minTimestamp THEN i
    ELSE FirstAtOrAfter(samples, i + 1, minTimestamp)

\* the scan without its break: the last sample inside the window wins
StartIdxNoBreak(samples) == Len(samples)

\* startIdx of updateVoice (1-based)
StartIdx(samples) ==
    LET now == samples[Len(samples)].timestamp
        minTimestamp == IF now > maxWindowMs THEN now - maxWindowMs ELSE 0
    IN FirstAtOrAfter(samples, 1, minTimestamp)

RECURSIVE FoldMin(_, _, _, _)
FoldMin(samples, i, axis, acc) ==
    IF i > Len(samples) THEN acc
    ELSE FoldMin(samples, i + 1, axis, Min2(acc, samples[i].position[axis]))

RECURSIVE FoldMax(_, _, _, _)
FoldMax(samples, i, axis, acc) ==
    IF i > Len(samples) THEN acc
    ELSE FoldMax(samples, i + 1, axis, Max2(acc, samples[i].position[axis]))

RECURSIVE CumulativeMotion(_, _)
CumulativeMotion(samples, i) ==
    IF i > Len(samples) THEN 0 ELSE samples[i].motion + CumulativeMotion(samples, i + 1)

RECURSIVE MaxSpeedFrom(_, _, _)
MaxSpeedFrom(samples, i, acc) ==
    IF i > Len(samples) THEN acc
    ELSE LET v == samples[i].velocity
         IN MaxSpeedFrom(samples, i + 1, Max2(acc, Length3(v[1], v[2], v[3])))

RECURSIVE SignFlipsFrom(_, _, _, _, _)
\* sign changes of velocity[axis] over samples i..end, jitter below the dead band skipped
SignFlipsFrom(samples, i, axis, hasPrev, prevSign) ==
    IF i > Len(samples) THEN 0
    ELSE LET v == samples[i].velocity[axis]
         IN IF Abs(v) * 4 > shakeMinMotion
            THEN LET sign == IF v >= 0 THEN 1 ELSE -1
                 IN (IF hasPrev /\ sign # prevSign THEN 1 ELSE 0)
                    + SignFlipsFrom(samples, i + 1, axis, TRUE, sign)
            ELSE SignFlipsFrom(samples, i + 1, axis, hasPrev, prevSign)

RECURSIVE HoldStartWholeHistory(_, _, _)
\* the backward scan going on past startIdx to the oldest sample stored
HoldStartWholeHistory(samples, i, startIdx) ==
    IF samples[i].motion > holdMotionThreshold THEN samples[i].timestamp
    ELSE IF i = 1 THEN samples[1].timestamp
    ELSE HoldStartWholeHistory(samples, i - 1, startIdx)

RECURSIVE HoldStartFrom(_, _, _)
\* the backward scan for the last sample that moved; the window's start when none did
HoldStartFrom(samples, i, startIdx) ==
    IF samples[i].motion > holdMotionThreshold THEN samples[i].timestamp
    ELSE IF i = startIdx THEN samples[startIdx].timestamp
    ELSE HoldStartFrom(samples, i - 1, startIdx)

\* the features updateVoice computes over the window
WindowFeatures(samples) ==
    LET startIdx == StartIdx(samples)
        startSample == samples[startIdx]
        latest == samples[Len(samples)]
        now == latest.timestamp
        minX == FoldMin(samples, startIdx, 1, startSample.position[1])
        maxX == FoldMax(samples, startIdx, 1, startSample.position[1])
        minY == FoldMin(samples, startIdx, 2, startSample.position[2])
        maxY == FoldMax(samples, startIdx, 2, startSample.position[2])
        holdStart == HoldStartFrom(samples, Len(samples), startIdx)
    IN [now |-> now,
        windowDuration |-> now - startSample.timestamp,
        avgMotion |-> Quot(CumulativeMotion(samples, startIdx), Len(samples) - startIdx + 1),
        maxSpeed |-> MaxSpeedFrom(samples, startIdx, 0),
        signFlips |-> SignFlipsFrom(samples, startIdx + 1, 1, FALSE, 0)
                      + SignFlipsFrom(samples, startIdx + 1, 2, FALSE, 0),
        deltaX |-> latest.position[1] - startSample.position[1],
        deltaY |-> latest.position[2] - startSample.position[2],
        horizontalSpan |-> maxX - minX,
        verticalSpan |-> maxY - minY,
        latestY |-> latest.position[2],
        holdDuration |-> now - holdStart]

VoiceEvent(voiceId, type, strength, extra) ==
    [voiceId |-> voiceId, type |-> type, strength |-> strength, extra |-> extra]

\* one rule of updateVoice skipped once an earlier rule of the call has fired
VoiceRuleExclusive(acc, cond, voiceId, type, now, cooldownMs, strength, extra) ==
    IF acc.events = <<>> /\ cond /\ VoiceCanTrigger(acc.times, voiceId, type, now, cooldownMs)
    THEN [events |-> Append(acc.events, VoiceEvent(voiceId, type, strength, extra)),
          times |-> VoiceRememberTrigger(acc.times, voiceId, type, now)]
    ELSE acc

\* one rule of updateVoice pushing its event at the front of outEvents
VoiceRuleAtFront(acc, cond, voiceId, type, now, cooldownMs, strength, extra) ==
    IF cond /\ VoiceCanTrigger(acc.times, voiceId, type, now, cooldownMs)
    THEN [events |-> <<VoiceEvent(voiceId, type, strength, extra)>> \o acc.events,
          times |-> VoiceRememberTrigger(acc.times, voiceId, type, now)]
    ELSE acc

\* one rule of updateVoice: when its condition holds and the cooldown allows,
\* push the event and remember the trigger
VoiceRule(acc, cond, voiceId, type, now, cooldownMs, strength, extra) ==
    IF cond /\ VoiceCanTrigger(acc.times, voiceId, type, now, cooldownMs)
    THEN [events |-> Append(acc.events, VoiceEvent(voiceId, type, strength, extra)),
          times |-> VoiceRememberTrigger(acc.times, voiceId, type, now)]
    ELSE acc

\* the extra of a raise taken from the window's first sample instead of its last
RaiseExtraAtStart(f) == f.latestY - f.deltaY

\* event.extra of a raise
RaiseExtra(f) == f.latestY

\* the extra of a hold left at 0 like that of a swipe
HoldExtraZero(f) == 0

\* the extra of a hold taken against the hold cooldown
HoldExtraPerCooldown(f) == clamp01(Ratio(f.holdDuration, holdCooldownMs))

\* event.extra of a hold
HoldExtra(f) == clamp01(Ratio(f.holdDuration, holdDurationMs))

\* the window test left out: any window is long enough
WindowNeverTooShort(f) == FALSE

\* if (windowDuration < config.minWindowMs) return;
WindowTooShort(f) == f.windowDuration < minWindowMs

\* the footprint taken as the smaller of the two spans
RadiusNarrowest(f) == IF f.horizontalSpan < f.verticalSpan THEN f.horizontalSpan ELSE f.verticalSpan

\* float radius = std::max(horizontalSpan, verticalSpan);
Radius(f) == Max2(f.horizontalSpan, f.verticalSpan)

\* updateVoice(voiceId, samples, outEvents): [events, times] after the call
UpdateVoiceResult(voiceId, samples, times) ==
    LET acc0 == [events |-> <<>>, times |-> times]
    IN IF Len(samples) < 2 THEN acc0
       ELSE LET f == WindowFeatures(samples)
                radius == Radius(f)
                absDeltaX == Abs(f.deltaX)
                absDeltaY == Abs(f.deltaY)
                a1 == VoiceRule(acc0,
                        f.deltaY <= -raiseDeltaY /\ f.horizontalSpan <= raiseHorizontalLimit,
                        voiceId, "raise", f.now, gestureCooldownMs,
                        clamp01(Ratio(-f.deltaY, raiseDeltaY)), RaiseExtra(f))
                a2 == VoiceRule(a1,
                        f.deltaY >= lowerDeltaY /\ f.horizontalSpan <= raiseHorizontalLimit,
                        voiceId, "lower", f.now, gestureCooldownMs,
                        clamp01(Ratio(f.deltaY, lowerDeltaY)), f.latestY)
                a3 == VoiceRule(a2,
                        /\ absDeltaX >= swipeDeltaX
                        /\ absDeltaX * 10 > absDeltaY * swipeOrthogonalityTenths
                        /\ absDeltaY <= swipeVerticalLimit,
                        voiceId, IF f.deltaX < 0 THEN "swipe_left" ELSE "swipe_right",
                        f.now, gestureCooldownMs,
                        clamp01(Ratio(absDeltaX, swipeDeltaX)), 0)
                a4 == VoiceRule(a3,
                        /\ radius <= shakeRadius
                        /\ f.avgMotion >= shakeMinMotion
                        /\ f.signFlips >= shakeMinSignFlips,
                        voiceId, "shake", f.now, gestureCooldownMs,
                        clamp01(Ratio(f.avgMotion, shakeMinMotion * 2)), 0)
                a5 == VoiceRule(a4,
                        f.maxSpeed >= burstSpeedThreshold,
                        voiceId, "burst", f.now, burstCooldownMs,
                        clamp01(Ratio(f.maxSpeed - burstSpeedThreshold,
                                      Max2(10, burstMaxSpeed - burstSpeedThreshold))), 0)
                a6 == VoiceRule(a5,
                        f.avgMotion <= holdMotionThreshold /\ f.holdDuration >= holdDurationMs,
                        voiceId, "hold", f.now, holdCooldownMs,
                        clamp01(Scale - Ratio(f.avgMotion, Max2(10, holdMotionThreshold))),
                        HoldExtra(f))
            IN IF WindowTooShort(f) THEN acc0 ELSE a6

(***************************************************************************)
(* ZoneGestureDetector.  A grid is the tuple of its 16 cells, row-major;   *)
(* cell z (0..15) is values[z + 1].                                        *)
(***************************************************************************)
kRowNames == <<"top", "upper_mid", "lower_mid", "bottom">>
kColumnNames == <<"left", "mid_left", "mid_right", "right">>
\* std::to_string(zoneIndex)
ZoneIndexString ==
    <<"0", "1", "2", "3", "4", "5", "6", "7", "8", "9", "10", "11", "12", "13", "14", "15">>

Cell(values, z) == values[z + 1]

\* canTrigger of the zone detector with the cooldown left out of the comparison
ZoneCanTriggerAnyTime(times, camId, type, timestamp, cooldownMs) ==
    IF camId \notin DOMAIN times THEN TRUE
    ELSE IF type \notin DOMAIN times[camId] THEN TRUE
    ELSE timestamp >= times[camId][type]

ZoneCanTrigger(times, camId, type, timestamp, cooldownMs) ==
    IF camId \notin DOMAIN times THEN TRUE
    ELSE IF type \notin DOMAIN times[camId] THEN TRUE
    ELSE timestamp >= times[camId][type] + cooldownMs

ZoneRememberTrigger(times, camId, type, timestamp) ==
    MapPut(times, camId,
           MapPut(IF camId \in DOMAIN times THEN times[camId] ELSE <<>>, type, timestamp))

\* the trim done by count: the three newest samples stay
TrimToNewest(history, minTimestamp) ==
    SubSeq(history, Max2(1, Len(history) - 2), Len(history))

RECURSIVE TrimOlder(_, _)
\* while (!history.empty() && history.front().timestamp < minTimestamp) history.pop_front();
TrimOlder(history, minTimestamp) ==
    IF history # <<>> /\ history[1].timestamp < minTimestamp
    THEN TrimOlder(Tail(history), minTimestamp)
    ELSE history

\* the lower end of a window of windowMs ending at timestampMs
WindowStart(timestampMs, windowMs) == IF timestampMs > windowMs THEN timestampMs - windowMs ELSE 0

RECURSIVE ArgMaxFrom(_, _, _, _, _, _)
\* index (0..3) of the first largest cell among base, base + stride, ...
ArgMaxFrom(values, base, stride, k, maxIndex, maxValue) ==
    IF k > 3 THEN maxIndex
    ELSE LET value == Cell(values, base + k * stride)
         IN IF value > maxValue
            THEN ArgMaxFrom(values, base, stride, k + 1, k, value)
            ELSE ArgMaxFrom(values, base, stride, k + 1, maxIndex, maxValue)

RowMaxIndex(values, row) == ArgMaxFrom(values, row * 4, 1, 1, 0, Cell(values, row * 4))
ColumnMaxIndex(values, col) == ArgMaxFrom(values, col, 4, 1, 0, Cell(values, col))

\* max - min over the four cells of a line
LineRange(values, base, stride) ==
    LET cells == {Cell(values, base + k * stride) : k \in 0..3}
        hi == CHOOSE v \in cells : \A w \in cells : w <= v
        lo == CHOOSE v \in cells : \A w \in cells : v <= w
    IN hi - lo

\* the samples detectSweeps does not skip
SweepWindow(history) ==
    LET now == history[Len(history)].timestamp
        minTimestamp == WindowStart(now, sweepWindowMs)
    IN SelectSeq(history, LAMBDA sample : sample.timestamp >= minTimestamp)

Increasing(indices) == \A i \in 2..Len(indices) : ~(indices[i] < indices[i - 1])
Decreasing(indices) == \A i \in 2..Len(indices) : ~(indices[i] > indices[i - 1])

ZoneEvent(camId, type, strength, hasZoneIndex, zoneIndex) ==
    [camId |-> camId, type |-> type, strength |-> strength,
     zoneIndex |-> zoneIndex, hasZoneIndex |-> hasZoneIndex]

\* the two directions of a line exchanged
SweepTypeSwapped(forward, backward, name, increasing) ==
    (IF increasing THEN backward ELSE forward) \o name

\* the type a monotone line gets
SweepType(forward, backward, name, increasing) ==
    (IF increasing THEN forward ELSE backward) \o name

SweepStrength(range) == clamp01(range)

\* one pass of the row loop or of the column loop of detectSweeps: the event it
\* pushes, if any (no two passes share a type, so each meets the cooldowns as the
\* call found them)
SweepLine(times, camId, indices, range, forward, backward, name, now) ==
    IF Len(indices) < sweepMinSteps THEN <<>>
    ELSE IF range < sweepMinStrength THEN <<>>
    ELSE LET delta == indices[Len(indices)] - indices[1]
             up == Increasing(indices) /\ delta >= 2
             down == Decreasing(indices) /\ delta <= -2
             type == SweepType(forward, backward, name, up)
         IN IF (up \/ down) /\ ZoneCanTrigger(times, camId, type, now, sweepCooldownMs)
            THEN <<ZoneEvent(camId, type, SweepStrength(range), FALSE, -1)>>
            ELSE <<>>

SweepRow(times, camId, window, latest, row) ==
    SweepLine(times, camId, [i \in 1..Len(window) |-> RowMaxIndex(window[i].values, row)],
              LineRange(latest.values, row * 4, 1),
              "sweep_lr_", "sweep_rl_", kRowNames[row + 1], latest.timestamp)

SweepColumn(times, camId, window, latest, col) ==
    SweepLine(times, camId, [i \in 1..Len(window) |-> ColumnMaxIndex(window[i].values, col)],
              LineRange(latest.values, col, 4),
              "sweep_tb_", "sweep_bt_", kColumnNames[col + 1], latest.timestamp)

RECURSIVE RememberSweeps(_, _, _, _)
\* rememberTrigger(camId, event.type, now) for every sweep pushed
RememberSweeps(times, events, now, i) ==
    IF i > Len(events) THEN times
    ELSE RememberSweeps(ZoneRememberTrigger(times, events[i].camId, events[i].type, now),
                        events, now, i + 1)

\* detectSweeps(camId, history, outEvents): [events, times] after it
detectSweeps(camId, history, times) ==
    IF Len(history) < sweepMinSteps THEN [events |-> <<>>, times |-> times]
    ELSE LET window == SweepWindow(history)
             latest == history[Len(history)]
             events == SweepRow(times, camId, window, latest, 0)
                       \o SweepRow(times, camId, window, latest, 1)
                       \o SweepRow(times, camId, window, latest, 2)
                       \o SweepRow(times, camId, window, latest, 3)
                       \o SweepColumn(times, camId, window, latest, 0)
                       \o SweepColumn(times, camId, window, latest, 1)
                       \o SweepColumn(times, camId, window, latest, 2)
                       \o SweepColumn(times, camId, window, latest, 3)
         IN [events |-> events, times |-> RememberSweeps(times, events, latest.timestamp, 1)]

NewTracker == [initialized |-> FALSE, prevValue |-> 0, prevSlope |-> 0, lastTrigger |-> 0]

\* the value a pulse is judged and scored by
PulseValue(tracker, value) == value

PulseStrength(value) == clamp01(Ratio(value - pulseThreshold, Max2(10, Scale - pulseThreshold)))

\* whether the pulse cooldown of a cell has run out
PulseCooledDown(tracker, timestamp) == timestamp >= tracker.lastTrigger + pulseCooldownMs

\* whether the loop body of detectPulses pushes a pulse for a cell at this value
PulseFires(tracker, value, timestamp) ==
    /\ tracker.initialized
    /\ tracker.prevSlope > pulseSlopeThreshold
    /\ value - tracker.prevValue <= -pulseSlopeThreshold
    /\ PulseValue(tracker, value) >= pulseThreshold
    /\ PulseCooledDown(tracker, timestamp)

\* the loop body going on to the next cell once it has pushed a pulse
NextTrackerUnlessPulsed(tracker, value, timestamp) ==
    IF ~tracker.initialized
    THEN [initialized |-> TRUE, prevValue |-> value, prevSlope |-> 0, lastTrigger |-> 0]
    ELSE IF PulseFires(tracker, value, timestamp)
    THEN [tracker EXCEPT !.lastTrigger = timestamp]
    ELSE [initialized |-> TRUE, prevValue |-> value, prevSlope |-> value - tracker.prevValue,
          lastTrigger |-> tracker.lastTrigger]

\* a tracker whose first value counts as a rise from 0
NextTrackerSlopeFromZero(tracker, value, timestamp) ==
    IF ~tracker.initialized
    THEN [initialized |-> TRUE, prevValue |-> value, prevSlope |-> value, lastTrigger |-> 0]
    ELSE [initialized |-> TRUE, prevValue |-> value, prevSlope |-> value - tracker.prevValue,
          lastTrigger |-> IF PulseFires(tracker, value, timestamp) THEN timestamp
                          ELSE tracker.lastTrigger]

\* the tracker of a cell after the loop body of detectPulses
NextTracker(tracker, value, timestamp) ==
    IF ~tracker.initialized
    THEN [initialized |-> TRUE, prevValue |-> value, prevSlope |-> 0, lastTrigger |-> 0]
    ELSE [initialized |-> TRUE, prevValue |-> value, prevSlope |-> value - tracker.prevValue,
          lastTrigger |-> IF PulseFires(tracker, value, timestamp) THEN timestamp
                          ELSE tracker.lastTrigger]

RECURSIVE PulseEvents(_, _, _, _, _)
\* the events detectPulses pushes for the cells zoneIndex..15, in loop order
PulseEvents(camId, trackers, values, timestamp, zoneIndex) ==
    IF zoneIndex > 15 THEN <<>>
    ELSE LET value == Cell(values, zoneIndex)
             tracker == trackers[zoneIndex + 1]
             rest == PulseEvents(camId, trackers, values, timestamp, zoneIndex + 1)
         IN IF PulseFires(tracker, value, timestamp)
            THEN <<ZoneEvent(camId, "pulse_zone", PulseStrength(PulseValue(tracker, value)),
                             TRUE, zoneIndex)>> \o rest
            ELSE rest

RECURSIVE RememberPulses(_, _, _, _)
\* rememberTrigger(camId, type + to_string(zoneIndex), timestamp) for every pulse pushed
RememberPulses(times, events, timestamp, i) ==
    IF i > Len(events) THEN times
    ELSE RememberPulses(
             ZoneRememberTrigger(times, events[i].camId,
                                 events[i].type \o ZoneIndexString[events[i].zoneIndex + 1], timestamp),
             events, timestamp, i + 1)

\* detectPulses(camId, sample, outEvents): [events, times, trackers] after it
detectPulses(camId, values, timestamp, trackers, times) ==
    LET events == PulseEvents(camId, trackers, values, timestamp, 0)
    IN [events |-> events,
        times |-> RememberPulses(times, events, timestamp, 1),
        trackers |-> [z \in 1..16 |-> NextTracker(trackers[z], values[z], timestamp)]]

\* updateCamera on a detector whose three maps are given: [history, events, times,
\* trackers] after it (history and trackers are those of camId)
UpdateCameraFrom(hists, trackerMap, times, camId, zones, timestampMs) ==
    LET old == IF camId \in DOMAIN hists THEN hists[camId] ELSE <<>>
        sample == [timestamp |-> timestampMs, values |-> zones]
        history == TrimOlder(Append(old, sample), WindowStart(timestampMs, zoneHistoryMs))
        swept == detectSweeps(camId, history, times)
        trackers == IF camId \in DOMAIN trackerMap THEN trackerMap[camId]
                    ELSE [z \in 1..16 |-> NewTracker]
        pulsed == detectPulses(camId, zones, timestampMs, trackers, swept.times)
    IN [history |-> history, events |-> swept.events \o pulsed.events, times |-> pulsed.times,
        trackers |-> pulsed.trackers]

\* updateCamera(camId, zones, timestampMs, outEvents): [history, events, times, trackers] after it
UpdateCameraResult(camId, zones, timestampMs) ==
    UpdateCameraFrom(zoneHistories, pulseTrackers, zoneLastTriggerTimes, camId, zones, timestampMs)

(***************************************************************************)
(* GlobalGestureDetector                                                   *)
(***************************************************************************)
RECURSIVE MotionSum(_, _)
MotionSum(samples, i) ==
    IF i > Len(samples) THEN 0 ELSE samples[i].globalMotion + MotionSum(samples, i + 1)

\* the mean globalMotion of a partition; 0 when it is empty
MotionAvg(samples) == IF Len(samples) > 0 THEN Quot(MotionSum(samples, 1), Len(samples)) ELSE 0

\* the "previous" partition: samples older than the eruption window
PreviousSamples(history, timestampMs) ==
    SelectSeq(history, LAMBDA s : s.timestamp < WindowStart(timestampMs, eruptionWindowMs))
\* the "recent" partition
RecentSamples(history, timestampMs) ==
    SelectSeq(history, LAMBDA s : ~(s.timestamp < WindowStart(timestampMs, eruptionWindowMs)))

GlobalEvent(type, strength) == [type |-> type, strength |-> strength]

\* the eruption cooldown with 0 read as "no eruption yet"
EruptionCooledDownOrNever(last, timestampMs) ==
    last = 0 \/ timestampMs >= last + eruptionCooldownMs

\* whether the eruption cooldown has run out
EruptionCooledDown(last, timestampMs) == timestampMs >= last + eruptionCooldownMs
\* the stillness rule with no cooldown
StillnessNeverCooling(last, timestampMs) == TRUE
\* the stillness cooldown asking for more than its length
StillnessCooledDownLate(last, timestampMs) == timestampMs > last + stillnessCooldownMs
\* whether the stillness cooldown has run out
StillnessCooledDown(last, timestampMs) == timestampMs >= last + stillnessCooldownMs

EruptionStrength(recentAvg) ==
    clamp01(Ratio(recentAvg - eruptionHigh, Max2(10, Scale - eruptionHigh)))

StillnessStrength(recentAvg, activeVoices) ==
    LET motionStrength == clamp01(Scale - Ratio(recentAvg, Max2(10, stillnessMotionThreshold)))
        voiceStrength == clamp01(Ratio(activeVoices - stillnessMinVoices, Max2(1, stillnessMinVoices)))
    IN clamp01(Quot(6 * motionStrength + 4 * voiceStrength, 10))

\* the stillness timer left running through an update that is not quiet
StillnessTimerKept(start, globalMotion, activeVoices, timestampMs) ==
    IF start # 0 THEN start
    ELSE IF globalMotion <= stillnessMotionThreshold /\ activeVoices >= stillnessMinVoices
    THEN timestampMs
    ELSE 0

\* the stillness timer after the quiet test of update
StillnessTimer(start, globalMotion, activeVoices, timestampMs) ==
    IF globalMotion <= stillnessMotionThreshold /\ activeVoices >= stillnessMinVoices
    THEN (IF start = 0 THEN timestampMs ELSE start)
    ELSE 0

\* the eruption test taking an empty past for a calm one
HasPastOrNone(previous) == TRUE

\* previousCount > 0
HasPast(previous) == Len(previous) > 0

\* update(globalMotion, activeVoices, timestampMs, outEvents) on a detector whose
\* fields are those of g: the fields and events after it
GlobalUpdateFrom(g, globalMotion, activeVoices, timestampMs) ==
    LET sample == [timestamp |-> timestampMs, globalMotion |-> globalMotion,
                   activeVoices |-> activeVoices]
        history == TrimOlder(Append(g.history, sample), WindowStart(timestampMs, globalHistoryMs))
        previous == PreviousSamples(history, timestampMs)
        recent == RecentSamples(history, timestampMs)
        previousAvg == MotionAvg(previous)
        recentAvg == MotionAvg(recent)
        erupts == /\ Len(recent) > 0 /\ HasPast(previous)
                  /\ recentAvg >= eruptionHigh /\ previousAvg <= eruptionLow
                  /\ EruptionCooledDown(g.lastEruption, timestampMs)
        events1 == IF erupts THEN <<GlobalEvent("eruption", EruptionStrength(recentAvg))>> ELSE <<>>
        start == StillnessTimer(g.stillnessStart, globalMotion, activeVoices, timestampMs)
        stills == /\ start > 0
                  /\ timestampMs - start >= stillnessDurationMs
                  /\ StillnessCooledDown(g.lastStillness, timestampMs)
        events2 == IF stills
                   THEN Append(events1, GlobalEvent("stillness", StillnessStrength(recentAvg, activeVoices)))
                   ELSE events1
    IN [history |-> history,
        lastEruption |-> IF erupts THEN timestampMs ELSE g.lastEruption,
        lastStillness |-> IF stills THEN timestampMs ELSE g.lastStillness,
        stillnessStart |-> IF stills THEN timestampMs ELSE start,
        events |-> events2]

\* the detector's fields as one record
GlobalFields ==
    [history |-> globalHistory, lastEruption |-> lastEruption, lastStillness |-> lastStillness,
     stillnessStart |-> stillnessStart, events |-> globalEvents]

\* a GlobalGestureDetector as its constructor leaves it
FreshGlobal ==
    [history |-> <<>>, lastEruption |-> 0, lastStillness |-> 0, stillnessStart |-> 0,
     events |-> <<>>]

\* update(globalMotion, activeVoices, timestampMs, outEvents): the fields and events after it
GlobalUpdateResult(globalMotion, activeVoices, timestampMs) ==
    GlobalUpdateFrom(GlobalFields, globalMotion, activeVoices, timestampMs)

(***************************************************************************)
(* Observers.  They record what was called and what came out; no action's  *)
(* guard or result reads them.                                             *)
(***************************************************************************)
Op(name, id) == [op |-> name, id |-> id]

SweepTypes ==
    {"sweep_lr_top", "sweep_lr_upper_mid", "sweep_lr_lower_mid", "sweep_lr_bottom",
     "sweep_rl_top", "sweep_rl_upper_mid", "sweep_rl_lower_mid", "sweep_rl_bottom",
     "sweep_tb_left", "sweep_tb_mid_left", "sweep_tb_mid_right", "sweep_tb_right",
     "sweep_bt_left", "sweep_bt_mid_left", "sweep_bt_mid_right", "sweep_bt_right"}
\* owner of a zone cooldown inside a camera: a sweep type, or pulse_zone with its cell
ZoneKeys == (SweepTypes \X {None}) \cup ({"pulse_zone"} \X (0..15))
GlobalTypes == {"eruption", "stillness"}

NoEmit ==
    [voice |-> [k \in Voices \X VoiceTypes |-> None],
     zone |-> [k \in Cams \X ZoneKeys |-> None],
     global |-> [k \in GlobalTypes |-> None]]

\* emit with the events of one updateVoice call stamped at now
StampVoice(emit, events, now) ==
    [emit EXCEPT !.voice =
        [k \in DOMAIN emit.voice |->
            IF \E i \in 1..Len(events) : events[i].voiceId = k[1] /\ events[i].type = k[2]
            THEN now ELSE emit.voice[k]]]

\* emit with every entry of one voice cleared
ClearVoice(emit, voiceId) ==
    [emit EXCEPT !.voice = [k \in DOMAIN emit.voice |-> IF k[1] = voiceId THEN None ELSE emit.voice[k]]]

\* gone with what emit holds for one voice carried over
CarryVoice(gone, emit, voiceId) ==
    [gone EXCEPT !.voice =
        [k \in DOMAIN gone.voice |->
            IF k[1] = voiceId /\ emit.voice[k] # None THEN emit.voice[k] ELSE gone.voice[k]]]

\* the cooldown owner of a zone event inside its camera
ZoneKeyOf(event) == <<event.type, IF event.hasZoneIndex THEN event.zoneIndex ELSE None>>

\* emit with the events of one updateCamera call stamped at now
StampZone(emit, events, now) ==
    [emit EXCEPT !.zone =
        [k \in DOMAIN emit.zone |->
            IF \E i \in 1..Len(events) : events[i].camId = k[1] /\ ZoneKeyOf(events[i]) = k[2]
            THEN now ELSE emit.zone[k]]]

\* emit with every entry of one camera cleared
ClearZone(emit, camId) ==
    [emit EXCEPT !.zone = [k \in DOMAIN emit.zone |-> IF k[1] = camId THEN None ELSE emit.zone[k]]]

\* gone with what emit holds for one camera carried over
CarryZone(gone, emit, camId) ==
    [gone EXCEPT !.zone =
        [k \in DOMAIN gone.zone |->
            IF k[1] = camId /\ emit.zone[k] # None THEN emit.zone[k] ELSE gone.zone[k]]]

\* emit with the events of one GlobalGestureDetector::update call stamped at now
StampGlobal(emit, events, now) ==
    [emit EXCEPT !.global =
        [k \in DOMAIN emit.global |->
            IF \E i \in 1..Len(events) : events[i].type = k THEN now ELSE emit.global[k]]]

ClearGlobal(emit) == [emit EXCEPT !.global = [k \in DOMAIN emit.global |-> None]]

\* gone with what emit holds for the room carried over
CarryGlobal(gone, emit) ==
    [gone EXCEPT !.global =
        [k \in DOMAIN gone.global |-> IF emit.global[k] # None THEN emit.global[k] ELSE gone.global[k]]]

\* number of events of a type in an output vector
CountType(events, type) == Cardinality({i \in 1..Len(events) : events[i].type = type})

\* the room was quiet in one update
QuietInput(globalMotion, activeVoices) ==
    globalMotion <= stillnessMotionThreshold /\ activeVoices >= stillnessMinVoices

\* the retained room samples split at the eruption window: the older ones are calm
\* on average and the ones inside the window loud on average
EruptionDue(history, timestampMs) ==
    LET old == {i \in 1..Len(history) : history[i].timestamp < timestampMs - eruptionWindowMs}
        new == (1..Len(history)) \ old
        Total(S) == MotionSum([i \in 1..Len(history) |->
                                 IF i \in S THEN history[i]
                                 ELSE [history[i] EXCEPT !.globalMotion = 0]], 1)
    IN /\ old # {} /\ new # {}
       /\ Total(old) <= eruptionLow * Cardinality(old)
       /\ Total(new) >= eruptionHigh * Cardinality(new)

\* first: timestamp of the first update; quiet: every update so far was quiet;
\* stillness, eruptions: events emitted so far; eruptionDue: updates so far at which
\* EruptionDue held (the counts stop at 2); quietSince: timestamp of the first of
\* the quiet updates that have come in a row up to now; fresh: a detector
\* constructed when this one was constructed or last reset, and fed the same updates;
\* cams: per camera seen, a zone detector constructed when the camera was first
\* seen or last removed, and fed the updates of that camera alone;
\* before: the entity histories as the last setCapacity found them;
\* lookup: what the last getHistory returned
NotFound == [found |-> FALSE, history |-> <<>>]
NoWatch ==
    [first |-> None, quiet |-> TRUE, stillness |-> 0, eruptions |-> 0, eruptionDue |-> 0,
     quietSince |-> None, fresh |-> FreshGlobal, cams |-> <<>>, before |-> <<>>,
     lookup |-> NotFound]

\* the detector of watch.cams for camId after one more update of that camera
WatchedCamera(w, camId, zones, timestampMs) ==
    LET seen == camId \in DOMAIN w.cams
    IN UpdateCameraFrom(IF seen THEN MapPut(<<>>, camId, w.cams[camId].history) ELSE <<>>,
                        IF seen THEN MapPut(<<>>, camId, w.cams[camId].trackers) ELSE <<>>,
                        IF seen THEN w.cams[camId].times ELSE <<>>,
                        camId, zones, timestampMs)

Watched(w, globalMotion, activeVoices, timestampMs, history, events) ==
    [first |-> IF w.first = None THEN timestampMs ELSE w.first,
     quiet |-> w.quiet /\ QuietInput(globalMotion, activeVoices),
     stillness |-> Min2(2, w.stillness + CountType(events, "stillness")),
     eruptions |-> Min2(2, w.eruptions + CountType(events, "eruption")),
     eruptionDue |-> Min2(2, w.eruptionDue + IF EruptionDue(history, timestampMs) THEN 1 ELSE 0),
     quietSince |-> IF ~QuietInput(globalMotion, activeVoices) THEN None
                    ELSE IF w.quietSince = None THEN timestampMs ELSE w.quietSince,
     fresh |-> GlobalUpdateFrom(w.fresh, globalMotion, activeVoices, timestampMs),
     cams |-> w.cams, before |-> w.before, lookup |-> w.lookup]

Observe(op, id, time, emit, gone) ==
    /\ lastOp' = Op(op, id)
    /\ callTime' = time
    /\ prevEmit' = lastEmit
    /\ lastEmit' = emit
    /\ goneEmit' = gone

(***************************************************************************)
(* Timestamps.  The caller stamps every call with its monotonic            *)
(* millisecond counter; clock is the last timestamp it handed out and a     *)
(* stamped call draws the next one, clock + dt.                             *)
(***************************************************************************)
VoiceSteps == {400}
ZoneSteps == {450}
CellSteps == {200}
GlobalSteps == {1500}

(***************************************************************************)
(* Calls on GestureHistory and VoiceGestureDetector                        *)
(***************************************************************************)
\* the (position, motion, energy) triples a run feeds: y up and down (also off the
\* nominal range), one step aside in x, a small diagonal jitter, moving and calm
Pose(x, y, motion) == [position |-> <<x, y, 0>>, motion |-> motion, energy |-> 0]
VoiceInputs ==
    {Pose(0, 500, 100), Pose(0, 300, 100), Pose(0, -500, 100), Pose(300, 300, 100),
     Pose(50, 550, 100), Pose(0, 500, 20)}

\* setCapacity trimming the oversized deques from the back
SetCapacityKeepsOldest(capacityFrames) ==
    /\ unit = "voice"
    /\ capacity' = Max2(1, capacityFrames)
    /\ histories' = [v \in DOMAIN histories |->
                        SubSeq(histories[v], 1, Min2(Len(histories[v]), Max2(1, capacityFrames)))]
    /\ voiceEvents' = <<>>
    /\ watch' = [watch EXCEPT !.before = histories]
    /\ Observe("setCapacity", capacityFrames, clock, lastEmit, goneEmit)
    /\ UNCHANGED <<unit, clock, voiceLastTriggerTimes, zoneVars, globalVars, driverVars>>

\* GestureHistory::setCapacity(capacityFrames)
SetCapacity(capacityFrames) ==
    /\ unit = "voice"
    /\ capacity' = Max2(1, capacityFrames)
    /\ histories' = [v \in DOMAIN histories |-> TrimToCapacity(histories[v], Max2(1, capacityFrames))]
    /\ voiceEvents' = <<>>
    /\ watch' = [watch EXCEPT !.before = histories]
    /\ Observe("setCapacity", capacityFrames, clock, lastEmit, goneEmit)
    /\ UNCHANGED <<unit, clock, voiceLastTriggerTimes, zoneVars, globalVars, driverVars>>

\* GestureHistory::addSample(voiceId, position, motion, energy, timestampMs)
AddSample(voiceId, position, motion, energy, timestampMs) ==
    /\ unit = "voice"
    /\ timestampMs <= MaxClockVoice
    /\ LET history == IF voiceId \in DOMAIN histories THEN histories[voiceId] ELSE <<>>
           added == AddedHistory(history, position, motion, energy, timestampMs, capacity)
       IN /\ Len(added) <= MaxHist
          /\ histories' = MapPut(histories, voiceId, added)
    /\ clock' = timestampMs
    /\ voiceEvents' = <<>>
    /\ Observe("addSample", voiceId, timestampMs, lastEmit, goneEmit)
    /\ UNCHANGED <<unit, capacity, voiceLastTriggerTimes, zoneVars, globalVars, watch, driverVars>>

\* the driver forgetting a voice: GestureHistory::removeVoice(voiceId) followed by
\* the detector's removeVoice(voiceId)
RemoveVoice(voiceId) ==
    /\ unit = "voice"
    /\ histories' = MapErase(histories, voiceId)
    /\ voiceLastTriggerTimes' = MapErase(voiceLastTriggerTimes, voiceId)
    /\ voiceEvents' = <<>>
    /\ Observe("removeVoice", voiceId, clock, ClearVoice(lastEmit, voiceId),
               CarryVoice(goneEmit, lastEmit, voiceId))
    /\ UNCHANGED <<unit, clock, capacity, zoneVars, globalVars, watch, driverVars>>

\* a lookup done with operator[], which makes the entry it does not find
GetHistoryCreates(voiceId) ==
    /\ unit = "voice"
    /\ histories' = MapPut(histories, voiceId,
                           IF voiceId \in DOMAIN histories THEN histories[voiceId] ELSE <<>>)
    /\ voiceEvents' = <<>>
    /\ watch' = [watch EXCEPT !.lookup = [found |-> TRUE,
                                          history |-> IF voiceId \in DOMAIN histories
                                                      THEN histories[voiceId] ELSE <<>>]]
    /\ Observe("getHistory", voiceId, clock, lastEmit, goneEmit)
    /\ UNCHANGED <<unit, clock, capacity, voiceLastTriggerTimes, zoneVars, globalVars, driverVars>>

\* GestureHistory::getHistory(voiceId), the pointer it returns kept in watch.lookup
GetHistory(voiceId) ==
    /\ unit = "voice"
    /\ voiceEvents' = <<>>
    /\ watch' = [watch EXCEPT !.lookup = IF voiceId \in DOMAIN histories
                                         THEN [found |-> TRUE, history |-> histories[voiceId]]
                                         ELSE NotFound]
    /\ Observe("getHistory", voiceId, clock, lastEmit, goneEmit)
    /\ UNCHANGED <<unit, clock, capacity, histories, voiceLastTriggerTimes, zoneVars, globalVars,
                   driverVars>>

\* VoiceGestureDetector::updateVoice(voiceId, *getHistory(voiceId), events)
UpdateVoice(voiceId) ==
    /\ unit = "voice"
    /\ voiceId \in DOMAIN histories
    /\ \E r \in {UpdateVoiceResult(voiceId, histories[voiceId], voiceLastTriggerTimes)},
          now \in {IF histories[voiceId] = <<>> THEN clock ELSE histories[voiceId][Len(histories[voiceId])].timestamp} :
          /\ voiceEvents' = r.events
          /\ voiceLastTriggerTimes' = r.times
          /\ Observe("updateVoice", voiceId, now,
                     StampVoice(lastEmit, r.events, now), goneEmit)
    /\ UNCHANGED <<unit, clock, capacity, histories, zoneVars, globalVars, watch, driverVars>>

(***************************************************************************)
(* Calls on ZoneGestureDetector                                            *)
(***************************************************************************)
\* a grid with one active cell
OneHot(cell, amount) == [z \in 1..16 |-> IF z = cell + 1 THEN amount ELSE 0]
\* a grid with two active cells
TwoHot(cellA, cellB, amount) == [z \in 1..16 |-> IF z \in {cellA + 1, cellB + 1} THEN amount ELSE 0]
\* the grids a run feeds: the peak at the head of the top row and of the left
\* column (cell 0), at the foot of the left column (cell 12), at the far end of
\* both lines at once (cells 3 and 12), and cell 0 far above the nominal range
ZoneInputs == {OneHot(0, 500), TwoHot(3, 12, 500), OneHot(12, 500), OneHot(0, 1500)}
\* the grids a run on one cell feeds: cell 0 just under the pulse threshold, above
\* it, and far above the nominal range
CellInputs == {OneHot(0, 300), OneHot(0, 500), OneHot(0, 1500)}

\* ZoneGestureDetector::updateCamera(camId, zones, timestampMs, outEvents)
UpdateCamera(camId, zones, timestampMs) ==
    /\ unit \in {"zone", "cell", "cams"}
    /\ timestampMs <= (CASE unit = "cell" -> MaxClockCell
                         [] unit = "cams" -> MaxClockCams
                         [] OTHER -> MaxClockZone)
    /\ \E w \in {WatchedCamera(watch, camId, zones, timestampMs)} :
          watch' = [watch EXCEPT !.cams = MapPut(@, camId, w)]
    /\ \E r \in {UpdateCameraResult(camId, zones, timestampMs)} :
          /\ zoneHistories' = MapPut(zoneHistories, camId, r.history)
          /\ pulseTrackers' = MapPut(pulseTrackers, camId, r.trackers)
          /\ zoneLastTriggerTimes' = r.times
          /\ zoneEvents' = r.events
          /\ Observe("updateCamera", camId, timestampMs,
                     StampZone(lastEmit, r.events, timestampMs), goneEmit)
    /\ clock' = timestampMs
    /\ UNCHANGED <<unit, voiceVars, globalVars, driverVars>>

\* removeCamera leaving the cooldown ledger and the pulse trackers in place
RemoveCameraKeepsCooldowns(camId) ==
    /\ unit \in {"zone", "cell", "cams"}
    /\ zoneHistories' = MapErase(zoneHistories, camId)
    /\ zoneEvents' = <<>>
    /\ watch' = [watch EXCEPT !.cams = MapErase(@, camId)]
    /\ Observe("removeCamera", camId, clock, ClearZone(lastEmit, camId),
               CarryZone(goneEmit, lastEmit, camId))
    /\ UNCHANGED <<unit, clock, voiceVars, globalVars, driverVars, pulseTrackers, zoneLastTriggerTimes>>

\* removeCamera clearing the three maps whole
RemoveCameraClearsAll(camId) ==
    /\ unit \in {"zone", "cell", "cams"}
    /\ zoneHistories' = <<>>
    /\ pulseTrackers' = <<>>
    /\ zoneLastTriggerTimes' = <<>>
    /\ zoneEvents' = <<>>
    /\ watch' = [watch EXCEPT !.cams = MapErase(@, camId)]
    /\ Observe("removeCamera", camId, clock, ClearZone(lastEmit, camId),
               CarryZone(goneEmit, lastEmit, camId))
    /\ UNCHANGED <<unit, clock, voiceVars, globalVars, driverVars>>

\* ZoneGestureDetector::removeCamera(camId)
RemoveCamera(camId) ==
    /\ unit \in {"zone", "cell", "cams"}
    /\ zoneHistories' = MapErase(zoneHistories, camId)
    /\ pulseTrackers' = MapErase(pulseTrackers, camId)
    /\ zoneLastTriggerTimes' = MapErase(zoneLastTriggerTimes, camId)
    /\ zoneEvents' = <<>>
    /\ watch' = [watch EXCEPT !.cams = MapErase(@, camId)]
    /\ Observe("removeCamera", camId, clock, ClearZone(lastEmit, camId),
               CarryZone(goneEmit, lastEmit, camId))
    /\ UNCHANGED <<unit, clock, voiceVars, globalVars, driverVars>>

(***************************************************************************)
(* Calls on GlobalGestureDetector                                          *)
(***************************************************************************)
\* the rooms a run feeds: calm and full, calm and nearly empty, loud and full
Room(globalMotion, activeVoices) == [globalMotion |-> globalMotion, activeVoices |-> activeVoices]
GlobalInputs == {Room(100, 4), Room(100, 2), Room(800, 4)}

\* GlobalGestureDetector::update(globalMotion, activeVoices, timestampMs, outEvents)
GlobalUpdate(globalMotion, activeVoices, timestampMs) ==
    /\ unit = "global"
    /\ timestampMs <= MaxClockGlobal
    /\ \E r \in {GlobalUpdateResult(globalMotion, activeVoices, timestampMs)} :
          /\ Len(r.history) <= MaxGlobalHist
          /\ globalHistory' = r.history
          /\ lastEruption' = r.lastEruption
          /\ lastStillness' = r.lastStillness
          /\ stillnessStart' = r.stillnessStart
          /\ globalEvents' = r.events
          /\ watch' = Watched(watch, globalMotion, activeVoices, timestampMs, r.history, r.events)
          /\ Observe("update", None, timestampMs,
                     StampGlobal(lastEmit, r.events, timestampMs), goneEmit)
    /\ clock' = timestampMs
    /\ UNCHANGED <<unit, voiceVars, zoneVars, driverVars>>

\* reset() clearing the history and the timer but not the two cooldown records
GlobalResetKeepsCooldowns ==
    /\ unit = "global"
    /\ globalHistory' = <<>>
    /\ stillnessStart' = 0
    /\ globalEvents' = <<>>
    /\ watch' = NoWatch
    /\ Observe("reset", None, clock, ClearGlobal(lastEmit), CarryGlobal(goneEmit, lastEmit))
    /\ UNCHANGED <<unit, clock, voiceVars, zoneVars, driverVars, lastEruption, lastStillness>>

\* GlobalGestureDetector::reset()
GlobalReset ==
    /\ unit = "global"
    /\ globalHistory' = <<>>
    /\ lastEruption' = 0
    /\ lastStillness' = 0
    /\ stillnessStart' = 0
    /\ globalEvents' = <<>>
    /\ watch' = NoWatch
    /\ Observe("reset", None, clock, ClearGlobal(lastEmit), CarryGlobal(goneEmit, lastEmit))
    /\ UNCHANGED <<unit, clock, voiceVars, zoneVars, driverVars>>

(***************************************************************************)
(* ofApp: one update() of the application.  d is the record of what        *)
(* processOscMessages, pruneVoices and updateVoiceGestures work on.        *)
(***************************************************************************)
VoiceStateMsg(voiceId, pose) ==
    [address |-> "/room/voice/state", voiceId |-> voiceId, position |-> pose.position,
     motion |-> pose.motion, energy |-> pose.energy]
DisconnectMsg(voiceId) == [address |-> "/room/voice/disconnect", voiceId |-> voiceId]
ZonesMsg(camId, rows, cols, zones) ==
    [address |-> "/room/camera/zones", camId |-> camId, rows |-> rows, cols |-> cols,
     zones |-> zones]
GlobalMotionMsg(value) == [address |-> "/room/global/motion", value |-> value]

\* what a send function hands to gestureSender
OscMessage(address, args) == [address |-> address, args |-> args]

\* sendVoiceEvent(event)
sendVoiceEvent(out, event) ==
    IF enableSending
    THEN Append(out, OscMessage("/room/gesture/voice",
                                <<event.voiceId, event.type, event.strength, event.extra>>))
    ELSE out

\* sendZoneEvent adding the zone index whatever the event
sendZoneEventWithIndex(out, event) ==
    IF enableSending
    THEN Append(out, OscMessage("/room/gesture/zone",
                                <<event.camId, event.type, event.strength, event.zoneIndex>>))
    ELSE out

\* sendZoneEvent(event)
sendZoneEvent(out, event) ==
    IF enableSending
    THEN Append(out, OscMessage("/room/gesture/zone",
                                IF event.hasZoneIndex
                                THEN <<event.camId, event.type, event.strength, event.zoneIndex>>
                                ELSE <<event.camId, event.type, event.strength>>))
    ELSE out

\* sendGlobalEvent(event)
sendGlobalEvent(out, event) ==
    IF enableSending
    THEN Append(out, OscMessage("/room/gesture/global", <<event.type, event.strength>>))
    ELSE out

RECURSIVE SendAll(_, _, _, _)
\* for (const auto& event : events) send...(event); kind picks the send function
SendAll(out, events, kind, i) ==
    IF i > Len(events) THEN out
    ELSE SendAll(CASE kind = "voice" -> sendVoiceEvent(out, events[i])
                   [] kind = "zone" -> sendZoneEvent(out, events[i])
                   [] kind = "global" -> sendGlobalEvent(out, events[i]),
                 events, kind, i + 1)

\* the application's objects as update() finds them, nothing sent yet
DriverState ==
    [voices |-> voices, histories |-> histories, times |-> voiceLastTriggerTimes,
     zoneHistories |-> zoneHistories, trackers |-> pulseTrackers,
     zoneTimes |-> zoneLastTriggerTimes, motion |-> lastGlobalMotion,
     zoneEvents |-> <<>>, voiceEvents |-> <<>>, sent |-> <<>>]

\* the message loop body whose disconnect branch leaves the sample history behind
HandleMessageKeepsHistory(d, message, now) ==
    CASE message.address = "/room/voice/state" ->
           [d EXCEPT !.voices = MapPut(@, message.voiceId, now),
                     !.histories =
                        MapPut(@, message.voiceId,
                               AddedHistory(IF message.voiceId \in DOMAIN @ THEN @[message.voiceId]
                                            ELSE <<>>,
                                            message.position, message.motion, message.energy,
                                            now, capacity))]
      [] message.address = "/room/voice/disconnect" ->
           [d EXCEPT !.voices = MapErase(@, message.voiceId),
                     !.times = MapErase(@, message.voiceId)]
      [] message.address = "/room/camera/zones" ->
           IF message.rows = 4 /\ message.cols = 4
           THEN LET r == UpdateCameraFrom(d.zoneHistories, d.trackers, d.zoneTimes,
                                          message.camId, message.zones, now)
                IN [d EXCEPT !.zoneHistories = MapPut(@, message.camId, r.history),
                             !.trackers = MapPut(@, message.camId, r.trackers),
                             !.zoneTimes = r.times,
                             !.zoneEvents = r.events,
                             !.sent = SendAll(@, r.events, "zone", 1)]
           ELSE d
      [] message.address = "/room/global/motion" -> [d EXCEPT !.motion = message.value]
      [] OTHER -> d

\* the body of the message loop of processOscMessages for one message
HandleMessage(d, message, now) ==
    CASE message.address = "/room/voice/state" ->
           [d EXCEPT !.voices = MapPut(@, message.voiceId, now),
                     !.histories =
                        MapPut(@, message.voiceId,
                               AddedHistory(IF message.voiceId \in DOMAIN @ THEN @[message.voiceId]
                                            ELSE <<>>,
                                            message.position, message.motion, message.energy,
                                            now, capacity))]
      [] message.address = "/room/voice/disconnect" ->
           [d EXCEPT !.voices = MapErase(@, message.voiceId),
                     !.histories = MapErase(@, message.voiceId),
                     !.times = MapErase(@, message.voiceId)]
      [] message.address = "/room/camera/zones" ->
           IF message.rows = 4 /\ message.cols = 4
           THEN LET r == UpdateCameraFrom(d.zoneHistories, d.trackers, d.zoneTimes,
                                          message.camId, message.zones, now)
                IN [d EXCEPT !.zoneHistories = MapPut(@, message.camId, r.history),
                             !.trackers = MapPut(@, message.camId, r.trackers),
                             !.zoneTimes = r.times,
                             !.zoneEvents = r.events,
                             !.sent = SendAll(@, r.events, "zone", 1)]
           ELSE d
      [] message.address = "/room/global/motion" -> [d EXCEPT !.motion = message.value]
      [] OTHER -> d

RECURSIVE processOscMessages(_, _, _, _)
\* the message loop over the waiting messages i..end, all stamped now
processOscMessages(d, waiting, i, now) ==
    IF i > Len(waiting) THEN d
    ELSE processOscMessages(HandleMessage(d, waiting[i], now), waiting, i + 1, now)

\* pruneVoices without the call of the detector's removeVoice
pruneVoicesKeepsCooldowns(d, now) ==
    LET stale == {v \in DOMAIN d.voices : now > d.voices[v] /\ now - d.voices[v] > staleMs}
    IN [d EXCEPT !.voices = [v \in (DOMAIN @) \ stale |-> @[v]],
                 !.histories = [v \in (DOMAIN @) \ stale |-> @[v]]]

\* pruneVoices(now)
pruneVoices(d, now) ==
    LET stale == {v \in DOMAIN d.voices : now > d.voices[v] /\ now - d.voices[v] > staleMs}
    IN [d EXCEPT !.voices = [v \in (DOMAIN @) \ stale |-> @[v]],
                 !.histories = [v \in (DOMAIN @) \ stale |-> @[v]],
                 !.times = [v \in (DOMAIN @) \ stale |-> @[v]]]

\* the orders in which a loop may walk the keys of an unordered_map
WalkOrders(keys) ==
    {order \in [1..Cardinality(keys) -> keys] :
        \A i, j \in 1..Cardinality(keys) : i # j => order[i] # order[j]}

RECURSIVE DetectVoices(_, _, _)
\* the detection loop of updateVoiceGestures over the voices order[i..]
DetectVoices(d, order, i) ==
    IF i > Len(order) THEN d
    ELSE LET voiceId == order[i]
         IN IF voiceId \notin DOMAIN d.histories \/ Len(d.histories[voiceId]) < 2
            THEN DetectVoices(d, order, i + 1)
            ELSE LET r == UpdateVoiceResult(voiceId, d.histories[voiceId], d.times)
                 IN DetectVoices([d EXCEPT !.times = r.times,
                                           !.voiceEvents = @ \o r.events],
                                 order, i + 1)

\* updateVoiceGestures() with its messages put ahead of what was sent before it
updateVoiceGesturesSentAhead(d, order) ==
    LET detected == DetectVoices(d, order, 1)
    IN [detected EXCEPT !.sent = SendAll(<<>>, detected.voiceEvents, "voice", 1) \o @]

\* updateVoiceGestures(): detect for every voice, then send what came out
updateVoiceGestures(d, order) ==
    LET detected == DetectVoices(d, order, 1)
    IN [detected EXCEPT !.sent = SendAll(@, detected.voiceEvents, "voice", 1)]

\* the batches of waiting messages a run feeds, in arrival order (the second
\* walks the peak of the top row from left to right within one tick)
GridLow == OneHot(0, 500)
GridHigh == OneHot(0, 900)
DriverBatches ==
    {<<>>,
     <<ZonesMsg(0, 4, 4, GridLow), ZonesMsg(0, 4, 4, OneHot(1, 500)),
       ZonesMsg(0, 4, 4, OneHot(3, 500))>>,
     <<ZonesMsg(0, 4, 4, GridHigh), VoiceStateMsg(1, Pose(0, 500, 100)), GlobalMotionMsg(800)>>,
     <<VoiceStateMsg(1, Pose(0, 300, 100)), ZonesMsg(0, 4, 4, GridLow)>>,
     <<DisconnectMsg(1), ZonesMsg(0, 2, 2, GridLow)>>}
DriverSteps == {900}
\* milliseconds the clock may gain between the read of update() and the read of
\* processOscMessages()
DriverSkews == {0, 1}

\* ofApp::update(): now is read at its top, stamp again by processOscMessages
Update(waiting, now, stamp) ==
    /\ unit = "driver"
    /\ stamp <= MaxClockDriver
    /\ \E d1 \in {processOscMessages(DriverState, waiting, 1, stamp)} :
       \E d2 \in {pruneVoices(d1, now)} :
       \E order \in WalkOrders(DOMAIN d2.voices) :
       \E d3 \in {updateVoiceGestures(d2, order)} :
       \E g \in {GlobalUpdateResult(d3.motion, Cardinality(DOMAIN d3.voices), now)} :
          /\ voices' = d3.voices
          /\ histories' = d3.histories
          /\ voiceLastTriggerTimes' = d3.times
          /\ voiceEvents' = d3.voiceEvents
          /\ zoneHistories' = d3.zoneHistories
          /\ pulseTrackers' = d3.trackers
          /\ zoneLastTriggerTimes' = d3.zoneTimes
          /\ zoneEvents' = d3.zoneEvents
          /\ lastGlobalMotion' = d3.motion
          /\ globalHistory' = g.history
          /\ lastEruption' = g.lastEruption
          /\ lastStillness' = g.lastStillness
          /\ stillnessStart' = g.stillnessStart
          /\ globalEvents' = g.events
          /\ sent' = SendAll(d3.sent, g.events, "global", 1)
    /\ clock' = stamp
    /\ lastOp' = Op("update()", None)
    /\ callTime' = now
    /\ UNCHANGED <<unit, capacity, lastEmit, prevEmit, goneEmit, watch>>

(***************************************************************************)
(* Initial state: every object as its constructor leaves it                *)
(***************************************************************************)
InitObjects ==
    /\ clock = 0
    /\ capacity = defaultCapacity
    /\ histories = <<>>
    /\ voiceLastTriggerTimes = <<>>
    /\ voiceEvents = <<>>
    /\ zoneHistories = <<>>
    /\ zoneLastTriggerTimes = <<>>
    /\ pulseTrackers = <<>>
    /\ zoneEvents = <<>>
    /\ globalHistory = <<>>
    /\ lastEruption = 0
    /\ lastStillness = 0
    /\ stillnessStart = 0
    /\ globalEvents = <<>>
    /\ lastOp = Op("construct", None)
    /\ callTime = 0
    /\ lastEmit = NoEmit
    /\ prevEmit = NoEmit
    /\ goneEmit = NoEmit
    /\ watch = NoWatch
    /\ voices = <<>>
    /\ lastGlobalMotion = 0
    /\ sent = <<>>

\* the voice side once the driver has configured the history (setCapacity in setup)
InitVoice ==
    /\ unit = "voice"
    /\ clock = 0
    /\ capacity = MaxHist
    /\ histories = <<>>
    /\ voiceLastTriggerTimes = <<>>
    /\ voiceEvents = <<>>
    /\ zoneHistories = <<>>
    /\ zoneLastTriggerTimes = <<>>
    /\ pulseTrackers = <<>>
    /\ zoneEvents = <<>>
    /\ globalHistory = <<>>
    /\ lastEruption = 0
    /\ lastStillness = 0
    /\ stillnessStart = 0
    /\ globalEvents = <<>>
    /\ lastOp = Op("construct", None)
    /\ callTime = 0
    /\ lastEmit = NoEmit
    /\ prevEmit = NoEmit
    /\ goneEmit = NoEmit
    /\ watch = NoWatch
    /\ voices = <<>>
    /\ lastGlobalMotion = 0
    /\ sent = <<>>

NextVoice ==
    \/ \E v \in Voices, in \in VoiceInputs, dt \in VoiceSteps :
          AddSample(v, in.position, in.motion, in.energy, clock + dt)
    \/ \E v \in Voices : UpdateVoice(v)
    \/ \E v \in Voices : RemoveVoice(v)

SpecVoice == InitVoice /\ [][NextVoice]_vars

\* the voice side fed faster than minWindowMs, and after pauses longer than
\* maxWindowMs
ShortSteps == {200, 1400}
ShortInputs == {Pose(0, 500, 100), Pose(0, 300, 100)}

NextShort ==
    \/ \E v \in Voices, in \in ShortInputs, dt \in ShortSteps :
          AddSample(v, in.position, in.motion, in.energy, clock + dt)
    \/ \E v \in Voices : UpdateVoice(v)

SpecShort == InitVoice /\ [][NextShort]_vars

\* an entity calm or moving, heard from every 400 or 600 ms, so that the stored
\* history can reach further back than maxWindowMs
HoldSteps == {400, 600}
HoldInputs == {Pose(0, 500, 20), Pose(0, 500, 100)}

NextHold ==
    \/ \E v \in Voices, in \in HoldInputs, dt \in HoldSteps :
          AddSample(v, in.position, in.motion, in.energy, clock + dt)
    \/ \E v \in Voices : UpdateVoice(v)

SpecHold == InitVoice /\ [][NextHold]_vars

\* GestureHistory alone, as constructed
InitHistory == unit = "voice" /\ InitObjects

HistorySteps == {0, 600}
HistoryInputs == {Pose(0, 500, 100), Pose(300, 300, 20)}

NextHistory ==
    \/ \E n \in 0..MaxCapacityArg : SetCapacity(n)
    \/ \E v \in Voices, in \in HistoryInputs, dt \in HistorySteps :
          AddSample(v, in.position, in.motion, in.energy, clock + dt)
    \/ \E v \in Voices : RemoveVoice(v)

SpecHistory == InitHistory /\ [][NextHistory]_vars

\* GestureHistory asked about an entity it holds and one it has never seen
LookupIds == {1, 2}

NextLookup ==
    \/ \E v \in Voices, in \in HistoryInputs, dt \in VoiceSteps :
          AddSample(v, in.position, in.motion, in.energy, clock + dt)
    \/ \E v \in LookupIds : RemoveVoice(v)
    \/ \E v \in LookupIds : GetHistory(v)

SpecLookup == InitHistory /\ [][NextLookup]_vars

InitZone == unit = "zone" /\ InitObjects

NextZone ==
    \/ \E c \in Cams, zones \in ZoneInputs, dt \in ZoneSteps :
          unit = "zone" /\ UpdateCamera(c, zones, clock + dt)
    \/ \E c \in Cams : unit = "zone" /\ RemoveCamera(c)

SpecZone == InitZone /\ [][NextZone]_vars

InitCell == unit = "cell" /\ InitObjects

NextCell ==
    \/ \E c \in Cams, zones \in CellInputs, dt \in CellSteps :
          unit = "cell" /\ UpdateCamera(c, zones, clock + dt)
    \/ \E c \in Cams : unit = "cell" /\ RemoveCamera(c)

SpecCell == InitCell /\ [][NextCell]_vars

\* a zone detector fed by two cameras
InitCams == unit = "cams" /\ InitObjects

TwoCams == {0, 1}
CamsSteps == {450}
CamsInputs == {OneHot(0, 500), OneHot(0, 900)}

NextCams ==
    \/ \E c \in TwoCams, zones \in CamsInputs, dt \in CamsSteps :
          unit = "cams" /\ UpdateCamera(c, zones, clock + dt)
    \/ \E c \in TwoCams : unit = "cams" /\ RemoveCamera(c)

SpecCams == InitCams /\ [][NextCams]_vars

\* two entities on the voice side, or two cameras on the zone detector, fed in any
\* interleaving; the grids keep cells 0 and 2 of the top row above pulseThreshold
\* and raise one of them at a time, which also moves the peak of the row
TwoVoices == {1, 2}
OwnerPoses == {Pose(0, 500, 100), Pose(0, 300, 100)}
TwoCells(valueA, valueB) == [z \in 1..16 |-> IF z = 1 THEN valueA ELSE IF z = 3 THEN valueB ELSE 0]
OwnerGrids == {TwoCells(900, 500), TwoCells(500, 900)}

InitOwners == InitVoice \/ InitCams

NextOwners ==
    \/ \E v \in TwoVoices, in \in OwnerPoses, dt \in VoiceSteps :
          AddSample(v, in.position, in.motion, in.energy, clock + dt)
    \/ \E v \in TwoVoices : UpdateVoice(v)
    \/ \E v \in TwoVoices : RemoveVoice(v)
    \/ \E c \in TwoCams, zones \in OwnerGrids, dt \in CamsSteps :
          unit = "cams" /\ UpdateCamera(c, zones, clock + dt)
    \/ \E c \in TwoCams : unit = "cams" /\ RemoveCamera(c)

SpecOwners == InitOwners /\ [][NextOwners]_vars

InitGlobal == unit = "global" /\ InitObjects

\* the two duration-bounded histories fed at their usual pace and after pauses
\* longer than historyMs
ZonePaces == {450, 2250}
GlobalPaces == {1500, 6000}

InitWindows == InitZone \/ InitGlobal

NextWindows ==
    \/ \E c \in Cams, zones \in CellInputs, dt \in ZonePaces :
          unit = "zone" /\ UpdateCamera(c, zones, clock + dt)
    \/ \E in \in {Room(100, 4), Room(800, 4)}, dt \in GlobalPaces :
          GlobalUpdate(in.globalMotion, in.activeVoices, clock + dt)

SpecWindows == InitWindows /\ [][NextWindows]_vars

NextGlobal ==
    \/ \E in \in GlobalInputs, dt \in GlobalSteps :
          GlobalUpdate(in.globalMotion, in.activeVoices, clock + dt)
    \/ /\ globalHistory # <<>>     \* the same update once more, at once
       /\ LET last == globalHistory[Len(globalHistory)]
          IN GlobalUpdate(last.globalMotion, last.activeVoices, last.timestamp)
    \/ GlobalReset

SpecGlobal == InitGlobal /\ [][NextGlobal]_vars

\* one cell of a camera, or the global detector, from timestamp 0 on: the global
\* detector may be updated at the timestamp the clock stands at
StartPaces == {0, 1500}
StartRooms == {Room(100, 4), Room(800, 4)}

InitStart == InitCell \/ InitGlobal

NextStart ==
    \/ NextCell
    \/ \E in \in StartRooms, dt \in StartPaces :
          GlobalUpdate(in.globalMotion, in.activeVoices, clock + dt)
    \/ GlobalReset

SpecStart == InitStart /\ [][NextStart]_vars

\* the application after ofApp::setup()
InitDriver ==
    /\ unit = "driver"
    /\ clock = 0
    /\ capacity = voiceHistoryCapacity
    /\ histories = <<>>
    /\ voiceLastTriggerTimes = <<>>
    /\ voiceEvents = <<>>
    /\ zoneHistories = <<>>
    /\ zoneLastTriggerTimes = <<>>
    /\ pulseTrackers = <<>>
    /\ zoneEvents = <<>>
    /\ globalHistory = <<>>
    /\ lastEruption = 0
    /\ lastStillness = 0
    /\ stillnessStart = 0
    /\ globalEvents = <<>>
    /\ lastOp = Op("construct", None)
    /\ callTime = 0
    /\ lastEmit = NoEmit
    /\ prevEmit = NoEmit
    /\ goneEmit = NoEmit
    /\ watch = NoWatch
    /\ voices = <<>>
    /\ lastGlobalMotion = 0
    /\ sent = <<>>

NextDriver ==
    \E waiting \in DriverBatches, dt \in DriverSteps, skew \in DriverSkews :
        Update(waiting, clock + dt, clock + dt + skew)

SpecDriver == InitDriver /\ [][NextDriver]_vars

\* the application hearing from two voices now and then and never a disconnect;
\* two ticks of 900 and 1600 ms add up to staleMs
PruneBatches ==
    {<<>>,
     <<VoiceStateMsg(1, Pose(0, 500, 100))>>,
     <<VoiceStateMsg(1, Pose(0, 300, 100)), VoiceStateMsg(2, Pose(0, 500, 100))>>}
PruneSteps == {900, 1600}

NextPrune ==
    \E waiting \in PruneBatches, dt \in PruneSteps, skew \in DriverSkews :
        Update(waiting, clock + dt, clock + dt + skew)

SpecPrune == InitDriver /\ [][NextPrune]_vars

\* the application hearing from two voices that come, move, disconnect and fall
\* silent
SyncBatches ==
    {<<>>,
     <<VoiceStateMsg(1, Pose(0, 500, 100))>>,
     <<VoiceStateMsg(1, Pose(0, 300, 100)), VoiceStateMsg(2, Pose(0, 500, 100))>>,
     <<DisconnectMsg(1), VoiceStateMsg(2, Pose(0, 300, 100))>>,
     <<DisconnectMsg(2)>>}

NextSync ==
    \E waiting \in SyncBatches, dt \in DriverSteps, skew \in DriverSkews :
        Update(waiting, clock + dt, clock + dt + skew)

SpecSync == InitDriver /\ [][NextSync]_vars

\* The history store with the voice detector, the zone detector and the global
\* detector are separate objects that share no field: a run drives one of them.
Init == InitVoice \/ InitZone \/ InitCell \/ InitGlobal

Next == NextVoice \/ NextZone \/ NextCell \/ NextGlobal

Spec == Init /\ [][Next]_vars


(***************************************************************************)
(* Properties                                                              *)
(***************************************************************************)
InUnit(x) == 0 <= x /\ x <= Scale

\* the cooldown the configuration gives a gesture type
CooldownOf(type) ==
    CASE type = "burst" -> burstCooldownMs
      [] type = "hold" -> holdCooldownMs
      [] type = "pulse_zone" -> pulseCooldownMs
      [] type \in SweepTypes -> sweepCooldownMs
      [] type = "eruption" -> eruptionCooldownMs
      [] type = "stillness" -> stillnessCooldownMs
      [] OTHER -> gestureCooldownMs

\* the events of an output vector as a set of positions
Positions(events) == 1..Len(events)

\* C1: an event a call emits comes at least its type's cooldown after the last
\* event of that type the same owner got since the owner was created or last
\* removed or reset (the owner is the entity, the camera for a sweep type, the
\* camera cell for pulse_zone, the room for eruption and stillness), and one call
\* never emits the same type twice for one owner.
C1_CooldownSpacing ==
    /\ \A i \in Positions(voiceEvents) :
          LET e == voiceEvents[i]
              last == prevEmit.voice[<<e.voiceId, e.type>>]
          IN /\ last # None => callTime - last >= CooldownOf(e.type)
             /\ \A j \in Positions(voiceEvents) :
                   j # i => <<voiceEvents[j].voiceId, voiceEvents[j].type>> # <<e.voiceId, e.type>>
    /\ \A i \in Positions(zoneEvents) :
          LET e == zoneEvents[i]
              last == prevEmit.zone[<<e.camId, ZoneKeyOf(e)>>]
          IN /\ last # None => callTime - last >= CooldownOf(e.type)
             /\ \A j \in Positions(zoneEvents) :
                   j # i => <<zoneEvents[j].camId, ZoneKeyOf(zoneEvents[j])>> # <<e.camId, ZoneKeyOf(e)>>
    /\ \A i \in Positions(globalEvents) :
          LET e == globalEvents[i]
              last == prevEmit.global[e.type]
          IN /\ last # None => callTime - last >= CooldownOf(e.type)
             /\ \A j \in Positions(globalEvents) : j # i => globalEvents[j].type # e.type

\* a second burst for one entity, the first tick after its burst cooldown ran out
C1_Witness ==
    \E i \in Positions(voiceEvents) :
        /\ voiceEvents[i].type = "burst"
        /\ prevEmit.voice[<<voiceEvents[i].voiceId, "burst">>] # None
        /\ callTime - prevEmit.voice[<<voiceEvents[i].voiceId, "burst">>] < 2 * burstCooldownMs

\* C2: every entity's history is at most capacity long, and capacity is at least 1.
C2_HistoryWithinCapacity ==
    /\ capacity >= 1
    /\ \A v \in DOMAIN histories : Len(histories[v]) <= capacity

\* addSample on a full history under a capacity set by setCapacity: the oldest
\* sample was dropped
C2_Witness ==
    /\ lastOp.op = "addSample"
    /\ capacity < defaultCapacity
    /\ \E v \in DOMAIN histories :
          /\ Len(histories[v]) = capacity
          /\ histories[v][1].timestamp > 0
          /\ histories[v][Len(histories[v])].timestamp > histories[v][1].timestamp

C4_AllOutputsInUnit ==
    \A i \in Positions(voiceEvents) :
        InUnit(voiceEvents[i].strength) /\ InUnit(voiceEvents[i].extra)

\* C4, amended: the strength of every voice event lies within [0, 1]; extra lies
\* within [0, 1] for a hold, is 0 for a swipe, a shake and a burst, and for a raise
\* or a lower is the y of the entity's latest sample as it came in.
C4_OutputsByType ==
    \A i \in Positions(voiceEvents) :
        LET e == voiceEvents[i]
            h == histories[e.voiceId]
        IN /\ InUnit(e.strength)
           /\ e.type = "hold" => InUnit(e.extra)
           /\ e.type \in {"swipe_left", "swipe_right", "shake", "burst"} => e.extra = 0
           /\ e.type \in {"raise", "lower"} => e.extra = h[Len(h)].position[2]

\* a raise that ends above the nominal range: its extra is below 0
C4_Witness ==
    \E i \in Positions(voiceEvents) : voiceEvents[i].type = "raise" /\ voiceEvents[i].extra < 0

\* the last sample of a history
Latest(h) == h[Len(h)]

\* the largest and the smallest member of a finite set of numbers
Largest(S) == CHOOSE a \in S : \A b \in S : b <= a
Smallest(S) == CHOOSE a \in S : \A b \in S : a <= b

\* the three latest values of cell z in a camera history of three samples or more
CellTail(h, z) ==
    <<Cell(h[Len(h) - 2].values, z), Cell(h[Len(h) - 1].values, z), Cell(h[Len(h)].values, z)>>

\* the pulses an output vector holds for cell z
PulsesOf(events, z) ==
    {i \in Positions(events) : events[i].type = "pulse_zone" /\ events[i].zoneIndex = z}

\* value v turned into a pulse strength
PulseStrengthOf(v) == Min2(Scale, Max2(0, Quot((v - pulseThreshold) * Scale, Scale - pulseThreshold)))

\* C5: when a cell's value has risen by more than pulseSlopeThreshold to a peak at
\* or above pulseThreshold and with this update falls by at least
\* pulseSlopeThreshold, the update emits exactly one pulse_zone for the cell, with
\* the strength of the peak value (taken where no cooldown stands in the way: the
\* cell has had no pulse yet and the timestamp is at least pulseCooldownMs).
C5_PulseAtPeak ==
    \A c \in DOMAIN zoneHistories, z \in 0..15 :
        LET h == zoneHistories[c]
            t == CellTail(h, z)
        IN (/\ lastOp = Op("updateCamera", c)
            /\ Len(h) >= 3
            /\ callTime >= pulseCooldownMs
            /\ prevEmit.zone[<<c, <<"pulse_zone", z>>>>] = None
            /\ t[2] - t[1] > pulseSlopeThreshold
            /\ t[2] >= pulseThreshold
            /\ t[2] - t[3] >= pulseSlopeThreshold)
           => /\ Cardinality(PulsesOf(zoneEvents, z)) = 1
              /\ \A i \in PulsesOf(zoneEvents, z) : zoneEvents[i].strength = PulseStrengthOf(t[2])

\* C6: while every update since construction or reset has been quiet, no stillness
\* is emitted before stillnessDurationMs after the first update, and one has been
\* emitted once an update comes at or after that mark.
C6_StillnessAtDuration ==
    (lastOp.op = "update" /\ watch.first # None /\ watch.quiet)
    => IF callTime < watch.first + stillnessDurationMs
       THEN watch.stillness = 0
       ELSE watch.stillness >= 1

\* C7: the first update since construction or reset at which the older samples
\* are calm on average and the samples of the eruption window loud on average
\* emits exactly one eruption, and an update repeated at the timestamp of an
\* eruption emits none.
C7_EruptionAtFirstContrast ==
    /\ (lastOp.op = "update" /\ watch.eruptionDue = 1 /\ EruptionDue(globalHistory, callTime))
       => CountType(globalEvents, "eruption") = 1
    /\ (lastOp.op = "update" /\ prevEmit.global["eruption"] = callTime)
       => CountType(globalEvents, "eruption") = 0

\* positions of the samples of h no older than maxWindowMs before its latest
InWindow(h) == {i \in 1..Len(h) : h[i].timestamp + maxWindowMs >= Latest(h).timestamp}
\* the first sample of that window
WindowHead(h) == h[Smallest(InWindow(h))]
WindowLongEnough(h) ==
    Len(h) >= 2 /\ Latest(h).timestamp - WindowHead(h).timestamp >= minWindowMs
Dx(h) == Latest(h).position[1] - WindowHead(h).position[1]
Dy(h) == Latest(h).position[2] - WindowHead(h).position[2]
HorizontalSpan(h) ==
    LET xs == {h[i].position[1] : i \in InWindow(h)} IN Largest(xs) - Smallest(xs)

\* the rule of each voice gesture, read off a history
RaiseHolds(h) ==
    WindowLongEnough(h) /\ Dy(h) <= -raiseDeltaY /\ HorizontalSpan(h) <= raiseHorizontalLimit
LowerHolds(h) ==
    WindowLongEnough(h) /\ Dy(h) >= lowerDeltaY /\ HorizontalSpan(h) <= raiseHorizontalLimit
SwipeHolds(h, left) ==
    /\ WindowLongEnough(h)
    /\ Abs(Dx(h)) >= swipeDeltaX
    /\ Abs(Dx(h)) * 10 > Abs(Dy(h)) * swipeOrthogonalityTenths
    /\ Abs(Dy(h)) <= swipeVerticalLimit
    /\ left <=> Dx(h) < 0
BurstHolds(h) ==
    /\ WindowLongEnough(h)
    /\ \E i \in InWindow(h) :
          Length3(h[i].velocity[1], h[i].velocity[2], h[i].velocity[3]) >= burstSpeedThreshold
VerticalSpan(h) ==
    LET ys == {h[i].position[2] : i \in InWindow(h)} IN Largest(ys) - Smallest(ys)
\* the motion values of the window added up, and how many there are
WindowMotion(h) ==
    LET idx == InWindow(h)
        Sum[S \in SUBSET idx] ==
            IF S = {} THEN 0 ELSE LET i == Largest(S) IN h[i].motion + Sum[S \ {i}]
    IN Sum[idx]
WindowCount(h) == Cardinality(InWindow(h))
\* the velocities along an axis, after the window's first sample, that leave the
\* dead band of a quarter of shakeMinMotion
Swings(h, axis) ==
    LET head == Smallest(InWindow(h))
        after == SubSeq(h, head + 1, Len(h))
        speeds == [i \in 1..Len(after) |-> after[i].velocity[axis]]
    IN SelectSeq(speeds, LAMBDA v : 4 * Abs(v) > shakeMinMotion)
\* how often neighbouring swings point opposite ways
Flips(swings) ==
    Cardinality({i \in 2..Len(swings) : (swings[i] >= 0) # (swings[i - 1] >= 0)})
ShakeHolds(h) ==
    /\ WindowLongEnough(h)
    /\ HorizontalSpan(h) <= shakeRadius /\ VerticalSpan(h) <= shakeRadius
    /\ WindowMotion(h) >= shakeMinMotion * WindowCount(h)
    /\ Flips(Swings(h, 1)) + Flips(Swings(h, 2)) >= shakeMinSignFlips
\* how long the entity has been still: since the last sample of the window whose
\* motion was above holdMotionThreshold, or since the window's first sample
StillDuration(h) ==
    LET moved == {i \in InWindow(h) : h[i].motion > holdMotionThreshold}
    IN Latest(h).timestamp
       - (IF moved = {} THEN WindowHead(h).timestamp ELSE h[Largest(moved)].timestamp)
HoldHolds(h) ==
    /\ WindowLongEnough(h)
    /\ WindowMotion(h) <= holdMotionThreshold * WindowCount(h)
    /\ StillDuration(h) >= holdDurationMs
VoiceRuleHolds(type, h) ==
    CASE type = "raise" -> RaiseHolds(h)
      [] type = "lower" -> LowerHolds(h)
      [] type = "swipe_left" -> SwipeHolds(h, TRUE)
      [] type = "swipe_right" -> SwipeHolds(h, FALSE)
      [] type = "burst" -> BurstHolds(h)
      [] type = "shake" -> ShakeHolds(h)
      [] type = "hold" -> HoldHolds(h)
      [] OTHER -> FALSE

\* the events of a type in the output of updateVoice
VoiceEventsOf(type) == {i \in Positions(voiceEvents) : voiceEvents[i].type = type}

\* whether a cooldown of length cooldownMs since last has run out by callTime
CooledDown(last, cooldownMs) == last = None \/ callTime - last >= cooldownMs

\* C8: updateVoice on a history whose window is at least minWindowMs long, with
\* dy <= -raiseDeltaY and a horizontal span <= raiseHorizontalLimit, emits exactly
\* one raise with strength clamp(|dy| / raiseDeltaY) and extra = the latest y when
\* the entity has no raise on cooldown, and no raise when it has (as when the
\* call is repeated on the same history).
C8_RaiseOnce ==
    \A v \in DOMAIN histories :
        (lastOp = Op("updateVoice", v) /\ RaiseHolds(histories[v]))
        => LET h == histories[v]
           IN IF CooledDown(prevEmit.voice[<<v, "raise">>], gestureCooldownMs)
              THEN /\ Cardinality(VoiceEventsOf("raise")) = 1
                   /\ \A i \in VoiceEventsOf("raise") :
                         /\ voiceEvents[i].voiceId = v
                         /\ voiceEvents[i].strength =
                               Min2(Scale, Quot(Abs(Dy(h)) * Scale, raiseDeltaY))
                         /\ voiceEvents[i].extra = Latest(h).position[2]
              ELSE VoiceEventsOf("raise") = {}

\* y 0.5 then 0.3, 400 ms apart: one raise of strength 1 and extra 0.3
C8_Witness ==
    \E v \in DOMAIN histories, i \in Positions(voiceEvents) :
        /\ lastOp = Op("updateVoice", v)
        /\ Len(histories[v]) = 2
        /\ histories[v][1].position[2] = 500
        /\ histories[v][2].position[2] = 300
        /\ voiceEvents[i] = VoiceEvent(v, "raise", Scale, 300)

\* the cells of a row and of a column, in the order the line is walked
RowCells(row) == <<row * 4, row * 4 + 1, row * 4 + 2, row * 4 + 3>>
ColumnCells(col) == <<col, col + 4, col + 8, col + 12>>

\* where along a line (0..3) the first largest value of a grid sits
PeakOf(values, cells) ==
    CHOOSE k \in 0..3 :
        /\ \A j \in 0..3 : Cell(values, cells[j + 1]) <= Cell(values, cells[k + 1])
        /\ \A j \in 0..(k - 1) : Cell(values, cells[j + 1]) < Cell(values, cells[k + 1])

\* positions of the samples of a camera history inside the sweep window
InSweepWindow(h) == {i \in 1..Len(h) : h[i].timestamp + sweepWindowMs >= Latest(h).timestamp}

\* the peak positions of a line over the sweep window, oldest first
PeakTrack(h, cells) ==
    LET first == Smallest(InSweepWindow(h))
    IN [i \in 1..Cardinality(InSweepWindow(h)) |-> PeakOf(h[first + i - 1].values, cells)]

\* max - min of the latest grid along a line
SpreadOf(h, cells) ==
    LET vs == {Cell(Latest(h).values, cells[j]) : j \in 1..4} IN Largest(vs) - Smallest(vs)

Rising(track) ==
    (\A i \in 2..Len(track) : track[i] >= track[i - 1]) /\ track[Len(track)] - track[1] >= 2
Falling(track) ==
    (\A i \in 2..Len(track) : track[i] <= track[i - 1]) /\ track[Len(track)] - track[1] <= -2

\* the output of updateCamera holds a sweep of this type and strength for camera c
HasSweep(c, type, strength) ==
    \E i \in Positions(zoneEvents) :
        zoneEvents[i] = ZoneEvent(c, type, strength, FALSE, None)
HasType(type) == \E i \in Positions(zoneEvents) : zoneEvents[i].type = type

\* the naming rule along one line, as C9 states it
LineNamed(c, cells, forward, backward) ==
    LET h == zoneHistories[c]
        track == PeakTrack(h, cells)
        strength == Min2(Scale, SpreadOf(h, cells))
    IN SpreadOf(h, cells) >= sweepMinStrength
       => /\ Rising(track) => HasSweep(c, forward, strength) /\ ~HasType(backward)
          /\ Falling(track) => HasSweep(c, backward, strength) /\ ~HasType(forward)

\* the naming rule along one line, for a window of at least sweepMinSteps samples
\* and a type that is not on cooldown
LineNamedWhenDue(c, cells, forward, backward) ==
    LET h == zoneHistories[c]
        track == PeakTrack(h, cells)
        strength == Min2(Scale, SpreadOf(h, cells))
        due(type) == CooledDown(prevEmit.zone[<<c, <<type, None>>>>], sweepCooldownMs)
    IN (SpreadOf(h, cells) >= sweepMinStrength /\ Len(track) >= sweepMinSteps)
       => /\ (Rising(track) /\ due(forward)) => HasSweep(c, forward, strength)
          /\ (Falling(track) /\ due(backward)) => HasSweep(c, backward, strength)
          /\ Rising(track) => ~HasType(backward)
          /\ Falling(track) => ~HasType(forward)

\* C9 as stated: a line whose peak positions over the sweep window never step
\* back and gain 2 or more, with a latest range >= sweepMinStrength, makes
\* updateCamera emit sweep_lr_<row> (sweep_tb_<column>) with strength clamp(range),
\* and the reverse makes it emit sweep_rl_<row> (sweep_bt_<column>) instead.
C9_SweepNaming ==
    \A c \in DOMAIN zoneHistories :
        lastOp = Op("updateCamera", c)
        => \A n \in 0..3 :
              /\ LineNamed(c, RowCells(n), "sweep_lr_" \o kRowNames[n + 1],
                           "sweep_rl_" \o kRowNames[n + 1])
              /\ LineNamed(c, ColumnCells(n), "sweep_tb_" \o kColumnNames[n + 1],
                           "sweep_bt_" \o kColumnNames[n + 1])

\* C9, amended: the same, for a sweep window that holds at least sweepMinSteps
\* samples and a sweep type the camera has not emitted within sweepCooldownMs.
C9_SweepNamingWhenDue ==
    \A c \in DOMAIN zoneHistories :
        lastOp = Op("updateCamera", c)
        => \A n \in 0..3 :
              /\ LineNamedWhenDue(c, RowCells(n), "sweep_lr_" \o kRowNames[n + 1],
                                  "sweep_rl_" \o kRowNames[n + 1])
              /\ LineNamedWhenDue(c, ColumnCells(n), "sweep_tb_" \o kColumnNames[n + 1],
                                  "sweep_bt_" \o kColumnNames[n + 1])

\* the peak of the left column walked from the bottom row to the top row over
\* three samples: sweep_bt_left comes out
C9_Witness ==
    \E c \in DOMAIN zoneHistories :
        /\ lastOp = Op("updateCamera", c)
        /\ Len(PeakTrack(zoneHistories[c], ColumnCells(0))) >= sweepMinSteps
        /\ Falling(PeakTrack(zoneHistories[c], ColumnCells(0)))
        /\ HasSweep(c, "sweep_bt_left", 500)

\* the pulse rule of cell z, read off the three latest samples of a camera history
PulseHolds(h, z) ==
    /\ Len(h) >= 3
    /\ CellTail(h, z)[2] - CellTail(h, z)[1] > pulseSlopeThreshold
    /\ CellTail(h, z)[3] - CellTail(h, z)[2] <= -pulseSlopeThreshold
    /\ CellTail(h, z)[3] >= pulseThreshold

\* the sweep rule of a line in one direction, read off a camera history
SweepHolds(h, cells, forward) ==
    /\ Len(PeakTrack(h, cells)) >= sweepMinSteps
    /\ SpreadOf(h, cells) >= sweepMinStrength
    /\ IF forward THEN Rising(PeakTrack(h, cells)) ELSE Falling(PeakTrack(h, cells))

\* the owner had this event before it was removed and has not had it since
FiredBeforeRemovalOnly(gone, last) == gone # None /\ last = None

\* the same, for a sweep type of camera c
SweepFiredBeforeRemovalOnly(c, type) ==
    FiredBeforeRemovalOnly(goneEmit.zone[<<c, <<type, None>>>>], prevEmit.zone[<<c, <<type, None>>>>])

\* C10: a gesture that fired for an entity (a sweep or a pulse that fired for a
\* camera) before the owner was removed is emitted again by the first update
\* after the removal at which its rule holds on the samples fed since, however
\* short the time since it last fired.
C10_RemovalResetsCooldowns ==
    /\ \A v \in DOMAIN histories :
          lastOp = Op("updateVoice", v)
          => \A type \in {"raise", "lower", "swipe_left", "swipe_right", "burst"} :
                (/\ FiredBeforeRemovalOnly(goneEmit.voice[<<v, type>>], prevEmit.voice[<<v, type>>])
                 /\ VoiceRuleHolds(type, histories[v]))
                => VoiceEventsOf(type) # {}
    /\ \A c \in DOMAIN zoneHistories :
          lastOp = Op("updateCamera", c)
          => /\ \A n \in 0..3 :
                   /\ (/\ SweepFiredBeforeRemovalOnly(c, "sweep_lr_" \o kRowNames[n + 1])
                       /\ SweepHolds(zoneHistories[c], RowCells(n), TRUE))
                      => HasType("sweep_lr_" \o kRowNames[n + 1])
                   /\ (/\ SweepFiredBeforeRemovalOnly(c, "sweep_rl_" \o kRowNames[n + 1])
                       /\ SweepHolds(zoneHistories[c], RowCells(n), FALSE))
                      => HasType("sweep_rl_" \o kRowNames[n + 1])
                   /\ (/\ SweepFiredBeforeRemovalOnly(c, "sweep_tb_" \o kColumnNames[n + 1])
                       /\ SweepHolds(zoneHistories[c], ColumnCells(n), TRUE))
                      => HasType("sweep_tb_" \o kColumnNames[n + 1])
                   /\ (/\ SweepFiredBeforeRemovalOnly(c, "sweep_bt_" \o kColumnNames[n + 1])
                       /\ SweepHolds(zoneHistories[c], ColumnCells(n), FALSE))
                      => HasType("sweep_bt_" \o kColumnNames[n + 1])
             /\ \A z \in 0..15 :
                   (/\ FiredBeforeRemovalOnly(goneEmit.zone[<<c, <<"pulse_zone", z>>>>],
                                              prevEmit.zone[<<c, <<"pulse_zone", z>>>>])
                    /\ PulseHolds(zoneHistories[c], z))
                   => PulsesOf(zoneEvents, z) # {}

\* a pulse of cell 0 that comes back after removeCamera, less than pulseCooldownMs
\* after the pulse before the removal
C10_Witness ==
    \E c \in DOMAIN zoneHistories :
        /\ lastOp = Op("updateCamera", c)
        /\ PulsesOf(zoneEvents, 0) # {}
        /\ FiredBeforeRemovalOnly(goneEmit.zone[<<c, <<"pulse_zone", 0>>>>],
                                  prevEmit.zone[<<c, <<"pulse_zone", 0>>>>])
        /\ callTime - goneEmit.zone[<<c, <<"pulse_zone", 0>>>>] < pulseCooldownMs

\* C11 as stated: within one entity's history the timestamps strictly increase.
C11_TimestampsStrictlyIncreasing ==
    \A v \in DOMAIN histories :
        \A i \in 2..Len(histories[v]) :
            histories[v][i - 1].timestamp < histories[v][i].timestamp

\* C11, amended: within one entity's history the timestamps never decrease (two
\* samples stamped in the same tick sit side by side with equal timestamps), and
\* none is later than the caller's clock.
C11_TimestampsNonDecreasing ==
    \A v \in DOMAIN histories :
        /\ \A i \in 2..Len(histories[v]) :
              histories[v][i - 1].timestamp <= histories[v][i].timestamp
        /\ \A i \in 1..Len(histories[v]) : histories[v][i].timestamp <= clock

\* two samples of one entity stamped in the same tick, after an older one
C11_Witness ==
    /\ lastOp.op = "addSample"
    /\ \E v \in DOMAIN histories :
          /\ Len(histories[v]) >= 3
          /\ histories[v][Len(histories[v])].timestamp = histories[v][Len(histories[v]) - 1].timestamp
          /\ histories[v][1].timestamp < histories[v][Len(histories[v])].timestamp

\* the place of a voice gesture type in the order the rules of updateVoice come
VoiceRank(type) ==
    CASE type = "raise" -> 1
      [] type = "lower" -> 2
      [] type \in {"swipe_left", "swipe_right"} -> 3
      [] type = "shake" -> 4
      [] type = "burst" -> 5
      [] type = "hold" -> 6

\* the row (0..3) a row sweep type names, the column a column sweep type names
RowOfType(type) ==
    CHOOSE n \in 0..3 : type \in {"sweep_lr_" \o kRowNames[n + 1], "sweep_rl_" \o kRowNames[n + 1]}
ColumnOfType(type) ==
    CHOOSE n \in 0..3 :
        type \in {"sweep_tb_" \o kColumnNames[n + 1], "sweep_bt_" \o kColumnNames[n + 1]}
RowSweepTypes ==
    {"sweep_lr_" \o kRowNames[n + 1] : n \in 0..3} \cup {"sweep_rl_" \o kRowNames[n + 1] : n \in 0..3}

\* the place of a zone event: rows 0..3, then columns 0..3, then cells 0..15
ZoneRank(event) ==
    IF event.type = "pulse_zone" THEN 8 + event.zoneIndex
    ELSE IF event.type \in RowSweepTypes THEN RowOfType(event.type)
    ELSE 4 + ColumnOfType(event.type)

GlobalRank(type) == IF type = "eruption" THEN 1 ELSE 2

\* C12: the events one updateVoice call appends come in the order raise, lower,
\* swipe, shake, burst, hold; those of one updateCamera call as row sweeps by row,
\* then column sweeps by column, then pulses by cell; those of one
\* GlobalGestureDetector::update call as eruption before stillness.
C12_RuleOrder ==
    /\ \A i, j \in Positions(voiceEvents) :
          i < j => VoiceRank(voiceEvents[i].type) <= VoiceRank(voiceEvents[j].type)
    /\ \A i, j \in Positions(zoneEvents) :
          i < j => ZoneRank(zoneEvents[i]) <= ZoneRank(zoneEvents[j])
    /\ \A i, j \in Positions(globalEvents) :
          i < j => GlobalRank(globalEvents[i].type) <= GlobalRank(globalEvents[j].type)

\* one updateVoice call that emits a raise and, after it, a burst
C12_Witness ==
    /\ lastOp.op = "updateVoice"
    /\ \E i, j \in Positions(voiceEvents) :
          i < j /\ voiceEvents[i].type = "raise" /\ voiceEvents[j].type = "burst"

\* the messages of an address among those sent during the last update()
SentTo(address) == {i \in 1..Len(sent) : sent[i].address = address}

\* every message to address a was sent before every message to address b
SentBefore(a, b) == \A i \in SentTo(a), j \in SentTo(b) : i < j

\* C13 as stated: among the gesture events handed to transport during one update
\* tick, all voice events come first, then all zone events, then all global events.
C13_VoiceZoneGlobal ==
    /\ SentBefore("/room/gesture/voice", "/room/gesture/zone")
    /\ SentBefore("/room/gesture/voice", "/room/gesture/global")
    /\ SentBefore("/room/gesture/zone", "/room/gesture/global")

\* C13, amended: among the gesture events handed to transport during one update
\* tick, all zone events come first (each camera message's events as the message
\* is processed), then all voice events, then all global events.
C13_ZoneVoiceGlobal ==
    /\ SentBefore("/room/gesture/zone", "/room/gesture/voice")
    /\ SentBefore("/room/gesture/zone", "/room/gesture/global")
    /\ SentBefore("/room/gesture/voice", "/room/gesture/global")

\* a tick that hands a zone event, a voice event and a global event to transport
C13_Witness ==
    /\ lastOp.op = "update()"
    /\ SentTo("/room/gesture/zone") # {}
    /\ SentTo("/room/gesture/voice") # {}
    /\ SentTo("/room/gesture/global") # {}

\* C14: in one updateVoice call each gesture type is emitted exactly when its own
\* rule holds on the history and its own cooldown has run out, whatever else the
\* call emits.
C14_RulesIndependent ==
    \A v \in DOMAIN histories :
        lastOp = Op("updateVoice", v)
        => \A type \in VoiceTypes :
              VoiceEventsOf(type) # {}
              <=> /\ VoiceRuleHolds(type, histories[v])
                  /\ CooledDown(prevEmit.voice[<<v, type>>], CooldownOf(type))

\* a call that emits a burst and, the burst cooldown having run out before the
\* gesture cooldown, no raise although the raise rule holds as well; the entity
\* got both in one earlier call
C14_Witness ==
    \E v \in DOMAIN histories :
        /\ lastOp = Op("updateVoice", v)
        /\ VoiceEventsOf("burst") # {}
        /\ RaiseHolds(histories[v])
        /\ VoiceEventsOf("raise") = {}
        /\ prevEmit.voice[<<v, "raise">>] = prevEmit.voice[<<v, "burst">>]

\* every update since the stillness at time last, that one included, was quiet
QuietEverSince(last) == watch.quietSince # None /\ watch.quietSince <= last

\* C15: once a stillness has been emitted, and while every update stays quiet,
\* the first update that comes stillnessCooldownMs or more after it emits the
\* next stillness (so with timestamps that keep advancing stillness is emitted
\* again and again).
C15_StillnessRearms ==
    (/\ lastOp.op = "update"
     /\ prevEmit.global["stillness"] # None
     /\ QuietEverSince(prevEmit.global["stillness"])
     /\ callTime >= prevEmit.global["stillness"] + stillnessCooldownMs)
    => CountType(globalEvents, "stillness") = 1

\* a second stillness, the room quiet ever since the one before
C15_Witness ==
    /\ lastOp.op = "update"
    /\ prevEmit.global["stillness"] # None
    /\ QuietEverSince(prevEmit.global["stillness"])
    /\ callTime = prevEmit.global["stillness"] + stillnessCooldownMs
    /\ CountType(globalEvents, "stillness") = 1

C17_ResetIsFresh ==
    lastOp.op \in {"update", "reset"}
    => /\ globalEvents = watch.fresh.events
       /\ GlobalFields = watch.fresh

\* a stillness that comes less than stillnessCooldownMs after the last one
\* before the reset
C17_Witness ==
    /\ lastOp.op = "update"
    /\ CountType(globalEvents, "stillness") = 1
    /\ goneEmit.global["stillness"] # None
    /\ prevEmit.global["stillness"] = None
    /\ callTime - goneEmit.global["stillness"] < stillnessCooldownMs

\* what the detector holds for camera c is what a detector holds that was
\* constructed when c was first seen or last removed and has seen c alone
SameAsAlone(c) ==
    LET seen == c \in DOMAIN watch.cams
    IN /\ (c \in DOMAIN zoneHistories) = seen
       /\ (c \in DOMAIN pulseTrackers) = seen
       /\ (c \in DOMAIN zoneLastTriggerTimes) = (seen /\ c \in DOMAIN watch.cams[c].times)
       /\ seen => /\ zoneHistories[c] = watch.cams[c].history
                   /\ pulseTrackers[c] = watch.cams[c].trackers
       /\ c \in DOMAIN zoneLastTriggerTimes => zoneLastTriggerTimes[c] = watch.cams[c].times[c]

\* C18: right after removeCamera(c) the detector holds no history, no pulse
\* tracker and no cooldown entry for c; from then on it does for c what a fresh
\* detector does; whatever is called for one camera, known or not, leaves what
\* the detector holds for every other camera as it was.
C18_RemoveCameraTotalLocal ==
    /\ \A c \in TwoCams : SameAsAlone(c)
    /\ \A c \in TwoCams :
          lastOp = Op("removeCamera", c)
          => /\ c \notin DOMAIN zoneHistories
             /\ c \notin DOMAIN pulseTrackers
             /\ c \notin DOMAIN zoneLastTriggerTimes
    /\ \A c \in TwoCams :
          lastOp = Op("updateCamera", c) => zoneEvents = watch.cams[c].events

\* camera 0 has just been removed while camera 1 keeps a history and a pulse
\* cooldown entry of its own
C18_Witness ==
    /\ lastOp = Op("removeCamera", 0)
    /\ 1 \in DOMAIN zoneLastTriggerTimes
    /\ Len(zoneHistories[1]) >= 3
    /\ zoneLastTriggerTimes[1]["pulse_zone0"] > 0

\* what addSample(v, ...) has just stored, and the sample that was last before it
StoredSample(v) == histories'[v][Len(histories'[v])]
HadPrevious(v) == v \in DOMAIN histories /\ histories[v] # <<>>
PreviousSample(v) == histories[v][Len(histories[v])]

\* (to - from) / dt with dt in seconds, in thousandths per second
PerSecond(from, to, dtMs) ==
    <<Quot((to[1] - from[1]) * 1000, dtMs), Quot((to[2] - from[2]) * 1000, dtMs),
      Quot((to[3] - from[3]) * 1000, dtMs)>>

\* C19: the sample stored by addSample has velocity (position -
\* previous.position) / dt, dt in seconds, when the entity has a previous sample
\* and the new timestamp is greater than the previous one, and the zero vector
\* when it has no previous sample or the new timestamp is not greater.
C19_DerivedVelocity ==
    [][\A v \in Voices :
          lastOp' = Op("addSample", v)
          => StoredSample(v).velocity =
                IF HadPrevious(v) /\ StoredSample(v).timestamp > PreviousSample(v).timestamp
                THEN PerSecond(PreviousSample(v).position, StoredSample(v).position,
                               StoredSample(v).timestamp - PreviousSample(v).timestamp)
                ELSE ZeroVec]_vars

\* a sample 0.3 to the right of and 600 ms after its predecessor is stored with
\* speed 0.5 per second in x
C19_Witness ==
    /\ lastOp = Op("addSample", 1)
    /\ Len(histories[1]) >= 2
    /\ LET n == Len(histories[1])
       IN /\ histories[1][n].timestamp = histories[1][n - 1].timestamp + 600
          /\ histories[1][n].position[1] = histories[1][n - 1].position[1] + 300
          /\ histories[1][n].velocity[1] = 500

\* kept is the last Len(kept) samples of old, in the order they had in old
MostRecentOf(kept, old) ==
    /\ Len(kept) <= Len(old)
    /\ \A i \in 1..Len(kept) : kept[i] = old[Len(old) - Len(kept) + i]

\* C20: when setCapacity(n) returns, the capacity is max(1, n) and every entity
\* history it found holds min(its length, the capacity) samples: its most
\* recent ones, in their original order.
C20_SetCapacityTrims ==
    \A n \in 0..MaxCapacityArg :
        lastOp = Op("setCapacity", n)
        => /\ capacity = (IF n >= 1 THEN n ELSE 1)
           /\ DOMAIN histories = DOMAIN watch.before
           /\ \A v \in DOMAIN histories :
                 /\ Len(histories[v]) = (IF Len(watch.before[v]) <= capacity
                                         THEN Len(watch.before[v]) ELSE capacity)
                 /\ MostRecentOf(histories[v], watch.before[v])

\* setCapacity has just dropped the two oldest samples of a history and kept
\* two or more
C20_Witness ==
    /\ \E n \in 0..MaxCapacityArg : lastOp = Op("setCapacity", n)
    /\ 1 \in DOMAIN histories
    /\ Len(histories[1]) >= 2
    /\ Len(watch.before[1]) >= Len(histories[1]) + 2
    /\ histories[1][1] # histories[1][2]

\* a step leaves the buffers of every entity but v as they were
OthersKept(v) ==
    /\ (DOMAIN histories') \ {v} = (DOMAIN histories) \ {v}
    /\ \A o \in (DOMAIN histories) \ {v} : histories'[o] = histories[o]

\* C21: removeVoice(v) leaves the store without a buffer for v and with every
\* other buffer as it was, so for an id the store does not hold it changes
\* nothing; getHistory(v) returns the buffer of v when the store holds one and
\* not-found otherwise, and leaves the store and its capacity as they were, so
\* hasVoice(v) is still false after a lookup that found nothing.
C21_RemoveAndLookup ==
    [][\A v \in LookupIds :
          /\ lastOp' = Op("removeVoice", v)
             => /\ ~hasVoice(v)'
                /\ OthersKept(v)
                /\ ~hasVoice(v) => histories' = histories
          /\ lastOp' = Op("getHistory", v)
             => /\ histories' = histories
                /\ capacity' = capacity
                /\ watch'.lookup.found = hasVoice(v)
                /\ hasVoice(v) => watch'.lookup.history = histories[v]
                /\ ~watch'.lookup.found => ~hasVoice(v)']_vars

\* a lookup of an entity that was added and then removed: not found, and the
\* store still has no entry for it
C21_Witness ==
    /\ lastOp = Op("getHistory", 1)
    /\ clock > 0
    /\ ~watch.lookup.found
    /\ ~hasVoice(1)
    /\ DOMAIN histories = {}

\* C22: updateVoice on a history of fewer than 2 samples, or one whose span from
\* the earliest sample inside maxWindowMs to the latest sample is shorter than
\* minWindowMs, emits no event and leaves the cooldown ledger as it was.
C22_InsufficientEvidence ==
    [][\A v \in Voices :
          (lastOp' = Op("updateVoice", v) /\ ~WindowLongEnough(histories[v]))
          => /\ voiceEvents' = <<>>
             /\ voiceLastTriggerTimes' = voiceLastTriggerTimes]_vars

\* a call that emits nothing on a history of which only the latest sample is
\* inside maxWindowMs, the entity being far enough below its oldest sample for a
\* lower and its last lower being long enough ago
C22_Witness ==
    /\ lastOp = Op("updateVoice", 1)
    /\ Len(histories[1]) >= 2
    /\ ~WindowLongEnough(histories[1])
    /\ voiceEvents = <<>>
    /\ Latest(histories[1]).position[2] - histories[1][1].position[2] >= lowerDeltaY
    /\ lastEmit.voice[<<1, "lower">>] # None
    /\ callTime - lastEmit.voice[<<1, "lower">>] >= gestureCooldownMs

\* the samples of a history whose speed is at or above burstSpeedThreshold
FastSamples(h) ==
    {k \in 1..Len(h) :
        Length3(h[k].velocity[1], h[k].velocity[2], h[k].velocity[3]) >= burstSpeedThreshold}

\* C23: one qualifying motion yields one event: a burst that updateVoice emits
\* for an entity that already got a burst answers a sample at or above
\* burstSpeedThreshold that came in after that earlier burst (so one fast sample
\* followed only by slower ones gets exactly one burst, however many later calls
\* re-examine the window).
C23_OneBurstPerSpike ==
    \A v \in DOMAIN histories :
        (/\ lastOp = Op("updateVoice", v)
         /\ VoiceEventsOf("burst") # {}
         /\ prevEmit.voice[<<v, "burst">>] # None)
        => \E k \in FastSamples(histories[v]) :
              histories[v][k].timestamp > prevEmit.voice[<<v, "burst">>]

\* the zone messages among those sent during the last update()
ZoneMessages == {i \in 1..Len(sent) : sent[i].address = "/room/gesture/zone"}

\* cell z of camera c fell with the latest sample, to a value still at or above
\* pulseThreshold, and its tracker has recorded a pulse at that sample
FellFromPeak(c, z) ==
    /\ pulseTrackers[c][z + 1].prevSlope <= -pulseSlopeThreshold
    /\ pulseTrackers[c][z + 1].prevValue = Cell(Latest(zoneHistories[c]).values, z)
    /\ pulseTrackers[c][z + 1].prevValue >= pulseThreshold
    /\ pulseTrackers[c][z + 1].lastTrigger = Latest(zoneHistories[c]).timestamp

\* C24: a zone event has a zone index exactly when its type is pulse_zone, the
\* index then being the cell 0..15 whose value peaked and has now fallen; a sweep
\* event has none; a /room/gesture/zone message has a fourth argument exactly
\* when its type is pulse_zone, and that argument is a cell 0..15.
C24_ZoneIndexContract ==
    /\ \A i \in Positions(zoneEvents) :
          LET e == zoneEvents[i]
          IN /\ e.type \in SweepTypes \cup {"pulse_zone"}
             /\ e.hasZoneIndex <=> e.type = "pulse_zone"
             /\ e.type = "pulse_zone"
                => /\ e.zoneIndex \in 0..15
                   /\ FellFromPeak(e.camId, e.zoneIndex)
             /\ e.type \in SweepTypes => e.zoneIndex = None
    /\ \A i \in ZoneMessages :
          /\ Len(sent[i].args) \in {3, 4}
          /\ Len(sent[i].args) = 4 <=> sent[i].args[2] = "pulse_zone"
          /\ Len(sent[i].args) = 4 => sent[i].args[4] \in 0..15
          /\ Len(sent[i].args) = 3 => sent[i].args[2] \in SweepTypes

\* a tick that sends a pulse of cell 0 with its index and a sweep without one
C24_Witness ==
    /\ lastOp.op = "update()"
    /\ \E i, j \in ZoneMessages :
          /\ sent[i].args[2] = "pulse_zone" /\ Len(sent[i].args) = 4 /\ sent[i].args[4] = 0
          /\ sent[j].args[2] = "sweep_lr_top" /\ Len(sent[j].args) = 3
    /\ \E i \in Positions(zoneEvents) : zoneEvents[i].type = "sweep_lr_top"

\* C25: every raise or lower event has extra equal to the y of the entity's
\* latest sample, every hold event has extra equal to
\* clamp(stillDuration / holdDurationMs), and every swipe_left, swipe_right, shake
\* and burst event has extra 0.
C25_ExtraMeaning ==
    \A v \in DOMAIN histories :
        lastOp = Op("updateVoice", v)
        => \A i \in Positions(voiceEvents) :
              LET e == voiceEvents[i]
                  h == histories[v]
              IN /\ e.voiceId = v
                 /\ e.type \in VoiceTypes
                 /\ e.type \in {"raise", "lower"} => e.extra = Latest(h).position[2]
                 /\ e.type = "hold"
                    => e.extra = Min2(Scale, Max2(0, Quot(StillDuration(h) * Scale, holdDurationMs)))
                 /\ e.type \in {"swipe_left", "swipe_right", "shake", "burst"} => e.extra = 0

\* a hold after holdDurationMs of calm, its extra 1, in a call that emits a
\* lower with the latest y as well
C25_Witness ==
    \E v \in DOMAIN histories, i, j \in Positions(voiceEvents) :
        /\ lastOp = Op("updateVoice", v)
        /\ voiceEvents[i].type = "hold"
        /\ voiceEvents[i].extra = Scale
        /\ StillDuration(histories[v]) = holdDurationMs
        /\ voiceEvents[j].type = "lower"
        /\ voiceEvents[j].extra = 500

\* the ledger key of a zone event: the type, with the cell index appended for a pulse
LedgerKey(e) == IF e.type = "pulse_zone" THEN e.type \o ZoneIndexString[e.zoneIndex + 1] ELSE e.type

\* one step of a ledger: an owner's entries go only when call removes the owner, an
\* entry never decreases, and it is made or changed only by a call that fires its
\* key, which stamps it with the time of the call
LedgerStep(old, new, removeOp, updateOp, firedKeys) ==
    /\ \A o \in DOMAIN old :
          /\ o \notin DOMAIN new => lastOp' = Op(removeOp, o)
          /\ o \in DOMAIN new => DOMAIN old[o] \subseteq DOMAIN new[o]
    /\ \A o \in DOMAIN new : \A k \in DOMAIN new[o] :
          LET had == o \in DOMAIN old /\ k \in DOMAIN old[o]
          IN /\ had => new[o][k] >= old[o][k]
             /\ (~had \/ new[o][k] # old[o][k])
                => /\ lastOp' = Op(updateOp, o)
                   /\ k \in firedKeys
                   /\ new[o][k] = callTime'

\* C26: for every (owner, gesture type) key of either cooldown ledger the recorded
\* time never decreases while the key exists, the key lasts until its owner is
\* removed, and an entry is created only by a call in which that gesture fires.
C26_LedgerMonotone ==
    [][/\ LedgerStep(voiceLastTriggerTimes, voiceLastTriggerTimes', "removeVoice", "updateVoice",
                      {voiceEvents'[i].type : i \in Positions(voiceEvents')})
       /\ LedgerStep(zoneLastTriggerTimes, zoneLastTriggerTimes', "removeCamera", "updateCamera",
                      {LedgerKey(zoneEvents'[i]) : i \in Positions(zoneEvents')})]_vars

\* a call that stamps one key of an entity while an older key of the same entity,
\* not fired in this call, keeps its earlier time
C26_Witness ==
    \E v \in DOMAIN voiceLastTriggerTimes : \E k, j \in DOMAIN voiceLastTriggerTimes[v] :
        /\ lastOp = Op("updateVoice", v)
        /\ voiceLastTriggerTimes[v][k] = callTime
        /\ \E i \in Positions(voiceEvents) : voiceEvents[i].type = k
        /\ voiceLastTriggerTimes[v][j] < callTime
        /\ \A i \in Positions(voiceEvents) : voiceEvents[i].type # j

\* what a map holds under a key, and the map cut down to that key
Held(m, k) == IF k \in DOMAIN m THEN <<m[k]>> ELSE <<>>
Only(m, k) == [j \in DOMAIN m \cap {k} |-> m[j]]

\* the step leaves everything held for entity b, or for camera b, as it was
VoiceKept(b) ==
    /\ Held(histories', b) = Held(histories, b)
    /\ Held(voiceLastTriggerTimes', b) = Held(voiceLastTriggerTimes, b)
CameraKept(b) ==
    /\ Held(zoneHistories', b) = Held(zoneHistories, b)
    /\ Held(pulseTrackers', b) = Held(pulseTrackers, b)
    /\ Held(zoneLastTriggerTimes', b) = Held(zoneLastTriggerTimes, b)

PulsedCells(events) ==
    {events[i].zoneIndex : i \in {j \in Positions(events) : events[j].type = "pulse_zone"}}
SweepsOf(events) == SelectSeq(events, LAMBDA e : e.type # "pulse_zone")
\* the ledger with the entries of pulses taken out
WithoutPulseKeys(times) ==
    [o \in DOMAIN times |-> [k \in DOMAIN times[o] \cap SweepTypes |-> times[o][k]]]
\* the trackers of a camera with every cell but z as constructed
OneCell(trackers, z) == [i \in 1..16 |-> IF i = z + 1 THEN trackers[i] ELSE NewTracker]

\* updateCamera(c) emits what a detector emits that holds camera c alone; its
\* sweeps are those it emits with no pulse on record, and each cell pulses exactly
\* when it does with every other cell's tracker as constructed
CameraAlone(c) ==
    LET zones == Latest(zoneHistories'[c]).values
        t == callTime'
        trackers == IF c \in DOMAIN pulseTrackers THEN pulseTrackers[c]
                    ELSE [z \in 1..16 |-> NewTracker]
    IN /\ zoneEvents' = UpdateCameraFrom(Only(zoneHistories, c), Only(pulseTrackers, c),
                                          Only(zoneLastTriggerTimes, c), c, zones, t).events
       /\ SweepsOf(zoneEvents')
             = SweepsOf(UpdateCameraFrom(zoneHistories, pulseTrackers,
                                         WithoutPulseKeys(zoneLastTriggerTimes), c, zones, t).events)
       /\ \A z \in 0..15 :
             (z \in PulsedCells(zoneEvents'))
                = (z \in PulsedCells(detectPulses(c, zones, t, OneCell(trackers, z), <<>>).events))

\* C27: a call for entity a (camera a) leaves the history, the cooldowns and the
\* pulse trackers of every other entity (camera) b as they were, and the events of
\* an update of b are those computed from what is held for b alone; a cell pulses
\* whatever the other cells have done, and sweeps fire whatever pulses are on record.
C27_OwnersDoNotInterfere ==
    [][/\ \A a, b \in TwoVoices :
             (a # b /\ lastOp'.op \in {"addSample", "updateVoice", "removeVoice"} /\ lastOp'.id = a)
             => VoiceKept(b)
       /\ \A a, b \in TwoCams :
             (a # b /\ lastOp'.op \in {"updateCamera", "removeCamera"} /\ lastOp'.id = a)
             => CameraKept(b)
       /\ \A b \in TwoVoices :
             lastOp' = Op("updateVoice", b)
             => voiceEvents' = UpdateVoiceResult(b, histories[b], Only(voiceLastTriggerTimes, b)).events
       /\ \A c \in TwoCams : lastOp' = Op("updateCamera", c) => CameraAlone(c)]_vars

\* entity 2 fires a gesture less than its cooldown after entity 1 fired the same
\* gesture
C27_Witness ==
    /\ lastOp = Op("updateVoice", 2)
    /\ voiceEvents # <<>>
    /\ 1 \in DOMAIN voiceLastTriggerTimes
    /\ voiceEvents[1].type \in DOMAIN voiceLastTriggerTimes[1]
    /\ voiceLastTriggerTimes[1][voiceEvents[1].type] < callTime
    /\ voiceLastTriggerTimes[1][voiceEvents[1].type] + burstCooldownMs > callTime

\* cell 0 of a camera pulses half a cooldown after its cell 2 pulsed, with a sweep
\* along the top row on record and the other camera known to the detector too
C27_CellWitness ==
    \E c, d \in TwoCams :
        /\ c # d
        /\ lastOp = Op("updateCamera", c)
        /\ 0 \in PulsedCells(zoneEvents)
        /\ c \in DOMAIN zoneLastTriggerTimes
        /\ {"pulse_zone2", "sweep_lr_top"} \subseteq DOMAIN zoneLastTriggerTimes[c]
        /\ zoneLastTriggerTimes[c]["pulse_zone2"] + pulseCooldownMs > callTime
        /\ d \in DOMAIN zoneHistories

\* the samples of history, with sample appended, that are no older than windowMs
\* at time t
WithinWindow(history, sample, t, windowMs) ==
    SelectSeq(Append(history, sample), LAMBDA s : s.timestamp + windowMs >= t)

\* every sample of history is stamped within [t - windowMs, t]
AllWithin(history, t, windowMs) ==
    \A i \in 1..Len(history) :
        history[i].timestamp <= t /\ history[i].timestamp + windowMs >= t

\* C28: when update or updateCamera returns at time t, every sample the history
\* keeps is stamped within [t - historyMs, t], and it keeps every sample it had or
\* was given that is: nothing is dropped for the number of samples.
C28_DurationBoundedWindows ==
    [][/\ lastOp' = Op("update", None)
          => /\ AllWithin(globalHistory', callTime', globalHistoryMs)
             /\ globalHistory' = WithinWindow(globalHistory, Latest(globalHistory'),
                                               callTime', globalHistoryMs)
       /\ \A c \in Cams :
             lastOp' = Op("updateCamera", c)
             => /\ AllWithin(zoneHistories'[c], callTime', zoneHistoryMs)
                /\ zoneHistories'[c] = WithinWindow(IF c \in DOMAIN zoneHistories
                                                      THEN zoneHistories[c] ELSE <<>>,
                                                      Latest(zoneHistories'[c]),
                                                      callTime', zoneHistoryMs)]_vars

\* a camera history of five samples, the oldest 1800 ms old
C28_ZoneWitness ==
    \E c \in DOMAIN zoneHistories :
        /\ lastOp = Op("updateCamera", c)
        /\ Len(zoneHistories[c]) = 5
        /\ zoneHistories[c][1].timestamp = callTime - 1800

\* a room history of four samples, the oldest 4500 ms old, built up after a pause
\* that emptied it
C28_Witness ==
    /\ lastOp = Op("update", None)
    /\ Len(globalHistory) = 4
    /\ globalHistory[1].timestamp = callTime - 4500
    /\ globalHistory[1].timestamp >= 6000

\* the cells of the line a sweep type names, and whether the type is the forward
\* one (left to right, top to bottom)
LineOfType(type) ==
    IF type \in RowSweepTypes THEN RowCells(RowOfType(type)) ELSE ColumnCells(ColumnOfType(type))
ForwardTypes ==
    {"sweep_lr_" \o kRowNames[n + 1] : n \in 0..3} \cup {"sweep_tb_" \o kColumnNames[n + 1] : n \in 0..3}

\* everything a sweep of this type out of updateCamera(c) presupposes
SweepEarned(c, type) ==
    LET h == zoneHistories[c]
        track == PeakTrack(h, LineOfType(type))
    IN /\ Cardinality(InSweepWindow(h)) >= sweepMinSteps
       /\ IF type \in ForwardTypes THEN Rising(track) ELSE Falling(track)
       /\ SpreadOf(h, LineOfType(type)) >= sweepMinStrength
       /\ CooledDown(prevEmit.zone[<<c, <<type, None>>>>], sweepCooldownMs)

\* C29: updateCamera emits a sweep for a row or column only if the sweep window
\* holds at least sweepMinSteps samples, the line's peak positions over it never
\* step against the event's direction and end 2 or more from where they began, the
\* latest sample's range on the line is >= sweepMinStrength, and the camera has not
\* emitted that sweep type within sweepCooldownMs.
C29_SweepConditionsNecessary ==
    \A c \in DOMAIN zoneHistories :
        lastOp = Op("updateCamera", c)
        => \A i \in Positions(zoneEvents) :
              zoneEvents[i].type # "pulse_zone"
              => /\ zoneEvents[i].type \in SweepTypes
                 /\ zoneEvents[i].camId = c
                 /\ SweepEarned(c, zoneEvents[i].type)

\* sweep_tb_left comes out again, sweepCooldownMs or more after the camera last
\* emitted it
C29_Witness ==
    \E c \in DOMAIN zoneHistories :
        /\ lastOp = Op("updateCamera", c)
        /\ HasType("sweep_tb_left")
        /\ SweepEarned(c, "sweep_tb_left")
        /\ prevEmit.zone[<<c, <<"sweep_tb_left", None>>>>] # None

\* the peak of the left column stepped back inside the window and nothing is
\* emitted for the column, though the range is there and neither type is cooling
C29_SuppressedWitness ==
    \E c \in DOMAIN zoneHistories :
        /\ lastOp = Op("updateCamera", c)
        /\ PeakTrack(zoneHistories[c], ColumnCells(0)) = <<3, 0, 3>>
        /\ SpreadOf(zoneHistories[c], ColumnCells(0)) >= sweepMinStrength
        /\ ~HasType("sweep_tb_left") /\ ~HasType("sweep_bt_left")

\* the time the pulse cooldown of cell z counts from when a call begins: that of
\* the cell's last pulse since the camera was first seen or last removed, and 0,
\* the value the last-trigger time starts with, when there has been none
PulseLastTrigger(c, z) ==
    IF lastEmit.zone[<<c, <<"pulse_zone", z>>>>] = None THEN 0
    ELSE lastEmit.zone[<<c, <<"pulse_zone", z>>>>]

\* the pulse rule for cell z in the step that is updateCamera(c)
PulseRule(c, z) ==
    LET was == IF c \in DOMAIN pulseTrackers THEN pulseTrackers[c][z + 1] ELSE NewTracker
        now == pulseTrackers'[c][z + 1]
        value == Cell(Latest(zoneHistories'[c]).values, z)
        pulses == PulsesOf(zoneEvents', z)
    IN /\ now.initialized
       /\ now.prevValue = value
       /\ ~was.initialized => pulses = {} /\ now.prevSlope = 0
       /\ was.initialized
          => /\ now.prevSlope = value - was.prevValue
             /\ (pulses # {})
                   = (/\ was.prevSlope > pulseSlopeThreshold
                      /\ value - was.prevValue <= -pulseSlopeThreshold
                      /\ value >= pulseThreshold
                      /\ callTime' >= PulseLastTrigger(c, z) + pulseCooldownMs)
             /\ Cardinality(pulses) <= 1
             /\ \A i \in pulses : zoneEvents'[i].strength = PulseStrengthOf(value)

Stale(lastUpdate, now) == now > lastUpdate /\ now - lastUpdate > staleMs

\* nothing is held for voice v: no table entry, no history, no cooldown entry
VoiceGone(v) ==
    /\ v \notin DOMAIN voices'
    /\ v \notin DOMAIN histories'
    /\ v \notin DOMAIN voiceLastTriggerTimes'

\* C31: a voice whose last state message is more than 2500 ms old when a tick
\* begins, and that hears nothing in the tick, is gone after it with its history and
\* its cooldown entries; a voice heard within 2500 ms stays with its history; the
\* first state message for an id that is not in the table starts a history of one
\* sample with zero velocity and no cooldown entry.
C31_StalePruning ==
    [][lastOp' = Op("update()", None)
       => /\ \A v \in DOMAIN voices :
                IF v \in DOMAIN voices' /\ voices'[v] = clock'
                THEN v \in DOMAIN histories'
                ELSE IF Stale(voices[v], callTime')
                THEN VoiceGone(v)
                ELSE /\ v \in DOMAIN voices' /\ voices'[v] = voices[v]
                     /\ v \in DOMAIN histories' /\ histories'[v] = histories[v]
          /\ \A v \in (DOMAIN voices') \ (DOMAIN voices) :
                /\ voices'[v] = clock'
                /\ Len(histories'[v]) = 1
                /\ histories'[v][1].velocity = ZeroVec
                /\ histories'[v][1].timestamp = clock'
                /\ v \notin DOMAIN voiceLastTriggerTimes']_vars

\* a tick has just pruned the only voice: the room counted one voice at the tick
\* before and counts none now, and nothing is held for it
C31_Witness ==
    /\ lastOp = Op("update()", None)
    /\ Len(globalHistory) >= 2
    /\ globalHistory[Len(globalHistory) - 1].activeVoices = 1
    /\ Latest(globalHistory).activeVoices = 0
    /\ voices = <<>> /\ histories = <<>> /\ voiceLastTriggerTimes = <<>>

\* a voice last heard exactly staleMs before the tick began is still there
C31_EdgeWitness ==
    \E v \in DOMAIN voices :
        /\ lastOp = Op("update()", None)
        /\ callTime - voices[v] = staleMs
        /\ v \in DOMAIN histories

\* a voice heard again after it was pruned: the room counted one voice, then none,
\* and the voice now has a history of one sample
C31_FreshWitness ==
    /\ lastOp = Op("update()", None)
    /\ Len(globalHistory) >= 3
    /\ globalHistory[Len(globalHistory) - 2].activeVoices = 1
    /\ globalHistory[Len(globalHistory) - 1].activeVoices = 0
    /\ 1 \in DOMAIN histories
    /\ Len(histories[1]) = 1

\* the output of the last update holds an event of this type
HasGlobal(type) == \E i \in Positions(globalEvents) : globalEvents[i].type = type

\* the retained room samples older than eruptionWindowMs at the last update
OlderThanWindow ==
    {i \in 1..Len(globalHistory) : globalHistory[i].timestamp + eruptionWindowMs < callTime}

\* C32: update emits no eruption unless, after trimming, at least one retained
\* sample is older than eruptionWindowMs; the first update after construction or
\* reset emits none, however loud the room.
C32_EruptionNeedsPast ==
    lastOp.op = "update"
    => /\ HasGlobal("eruption") => OlderThanWindow # {}
       /\ Len(globalHistory) = 1 => ~HasGlobal("eruption")

\* the first update after a reset finds a loud room, with no eruption on record and
\* the clock past eruptionCooldownMs, and emits no eruption
C32_Witness ==
    /\ lastOp.op = "update"
    /\ watch.first = callTime
    /\ Len(globalHistory) = 1
    /\ globalHistory[1].globalMotion >= eruptionHigh
    /\ lastEruption = 0
    /\ callTime >= eruptionCooldownMs
    /\ ~HasGlobal("eruption")

\* an eruption comes out over a past of two calm samples
C32_PastWitness ==
    /\ lastOp.op = "update"
    /\ HasGlobal("eruption")
    /\ Cardinality(OlderThanWindow) >= 2

\* the timestamps above 0 among the retained room samples
PositiveStamps == {globalHistory[i].timestamp : i \in 1..Len(globalHistory)} \ {0}

\* C33: no pulse_zone is emitted at a timestamp below pulseCooldownMs, no eruption
\* below eruptionCooldownMs and no stillness below stillnessCooldownMs, whether the
\* owner is new, removed and seen again, or reset; a quiet update at timestamp 0
\* does not start the stillness timer: the timer starts at the first quiet update
\* after 0.
C33_StartupDeadTime ==
    /\ \A c \in Cams :
          (lastOp = Op("updateCamera", c) /\ HasType("pulse_zone")) => callTime >= pulseCooldownMs
    /\ lastOp.op = "update"
       => /\ HasGlobal("eruption") => callTime >= eruptionCooldownMs
          /\ HasGlobal("stillness") => callTime >= stillnessCooldownMs
          /\ (watch.quiet /\ watch.first = 0 /\ callTime < stillnessCooldownMs)
             => stillnessStart = (IF PositiveStamps = {} THEN 0 ELSE Smallest(PositiveStamps))

\* the room has been quiet since an update at timestamp 0, a second quiet update
\* has come stillnessDurationMs after 0 and has emitted nothing: the timer stands
\* at 1500, not at 0
C33_Witness ==
    /\ lastOp.op = "update"
    /\ watch.quiet /\ watch.first = 0
    /\ callTime = stillnessDurationMs
    /\ stillnessStart = 1500
    /\ globalEvents = <<>>

\* cell 0 of a camera seen again after removeCamera rose and fell back to a value
\* above pulseThreshold before pulseCooldownMs, and no pulse came out
C33_PulseWitness ==
    \E c \in DOMAIN zoneHistories :
        /\ lastOp = Op("updateCamera", c)
        /\ callTime < pulseCooldownMs
        /\ Len(zoneHistories[c]) = 3
        /\ zoneHistories[c][1].timestamp > 200
        /\ CellTail(zoneHistories[c], 0) = <<500, 1500, 500>>
        /\ zoneEvents = <<>>

\* the room turned loud over a calm past before eruptionCooldownMs, and no eruption
\* came out
C33_EruptionWitness ==
    /\ lastOp.op = "update"
    /\ callTime < eruptionCooldownMs
    /\ EruptionDue(globalHistory, callTime)
    /\ globalEvents = <<>>

\* the time the analysis window of a history spans
WindowSpan(h) == Latest(h).timestamp - WindowHead(h).timestamp

\* C34: the still duration updateVoice measures never exceeds the span of the
\* analysis window, which is at most maxWindowMs and at most the span of the
\* stored history; a hold is emitted only by a call whose window spans at least
\* holdDurationMs, hence only while holdDurationMs <= maxWindowMs.
C34_HoldBoundedByWindow ==
    \A v \in DOMAIN histories :
        Len(histories[v]) >= 2
        => LET h == histories[v]
           IN /\ WindowFeatures(h).holdDuration <= WindowSpan(h)
              /\ WindowSpan(h) <= maxWindowMs
              /\ WindowSpan(h) <= Latest(h).timestamp - h[1].timestamp
              /\ (lastOp = Op("updateVoice", v) /\ VoiceEventsOf("hold") # {})
                 => /\ WindowSpan(h) >= holdDurationMs
                    /\ holdDurationMs <= maxWindowMs

\* a hold comes out for an entity whose four stored samples are all calm and reach
\* 1600 ms back: the duration measured is the 1200 ms of the window
C34_Witness ==
    \E v \in DOMAIN histories :
        /\ lastOp = Op("updateVoice", v)
        /\ VoiceEventsOf("hold") # {}
        /\ Len(histories[v]) = 4
        /\ \A i \in 1..4 : histories[v][i].motion <= holdMotionThreshold
        /\ Latest(histories[v]).timestamp - histories[v][1].timestamp = 1600
        /\ WindowFeatures(histories[v]).holdDuration = maxWindowMs

\* an entity calm for 1400 ms whose window spans 800 ms only: no hold
C34_NoHoldWitness ==
    \E v \in DOMAIN histories :
        /\ lastOp = Op("updateVoice", v)
        /\ Len(histories[v]) = 4
        /\ \A i \in 1..4 : histories[v][i].motion <= holdMotionThreshold
        /\ Latest(histories[v]).timestamp - histories[v][1].timestamp = 1400
        /\ WindowSpan(histories[v]) = 800
        /\ voiceEvents = <<>>

\* C35: every hold event has extra 1: a hold is emitted only when the measured
\* still duration is at least holdDurationMs.
C35_HoldExtraIsOne ==
    \A i \in Positions(voiceEvents) :
        voiceEvents[i].type = "hold"
        => /\ voiceEvents[i].extra = Scale
           /\ lastOp = Op("updateVoice", voiceEvents[i].voiceId)
           /\ WindowFeatures(histories[voiceEvents[i].voiceId]).holdDuration >= holdDurationMs

\* a hold over three calm samples 600 ms apart, its extra 1
C35_Witness ==
    \E i \in Positions(voiceEvents) :
        /\ voiceEvents[i].type = "hold"
        /\ voiceEvents[i].extra = Scale
        /\ Len(histories[voiceEvents[i].voiceId]) = 3
        /\ WindowFeatures(histories[voiceEvents[i].voiceId]).holdDuration = holdDurationMs


\* C36: under the default configuration one updateVoice call emits at most one
\* of raise, lower, swipe_left, swipe_right and shake for the entity, never a
\* shake together with a hold, and so at most three events: one of those five,
\* a burst and a hold
DirectionalTypes == {"raise", "lower", "swipe_left", "swipe_right", "shake"}
C36_OneDirectionalGesture ==
    LET directional == {i \in Positions(voiceEvents) : voiceEvents[i].type \in DirectionalTypes}
    IN /\ Cardinality(directional) <= 1
       /\ Cardinality(VoiceEventsOf("burst")) <= 1
       /\ Cardinality(VoiceEventsOf("hold")) <= 1
       /\ ~(VoiceEventsOf("shake") # {} /\ VoiceEventsOf("hold") # {})
       /\ \A i \in Positions(voiceEvents) :
              voiceEvents[i].type \in DirectionalTypes \cup {"burst", "hold"}
       /\ Len(voiceEvents) <= 3
\* a call that emitted three events: a directional gesture, a burst and a hold
C36_Witness ==
    /\ Len(voiceEvents) = 3
    /\ \E i \in Positions(voiceEvents) : voiceEvents[i].type \in DirectionalTypes
    /\ VoiceEventsOf("burst") # {}
    /\ VoiceEventsOf("hold") # {}
\* a call that emitted a shake
C36_ShakeWitness == VoiceEventsOf("shake") # {}

\* C37: no pulse_zone is emitted for a camera on its first two updateCamera calls
\* after it is first seen or after removeCamera: a pulse comes with at least three
\* samples taken since then (the zone history is not trimmed within a run on one
\* cell, so its length counts the calls)
C37_NoPulseOnFirstTwoCalls ==
    \A i \in Positions(zoneEvents) :
        zoneEvents[i].type = "pulse_zone"
        => /\ lastOp = Op("updateCamera", zoneEvents[i].camId)
           /\ Latest(zoneHistories[zoneEvents[i].camId]).timestamp
                 - zoneHistories[zoneEvents[i].camId][1].timestamp < zoneHistoryMs
           /\ Len(zoneHistories[zoneEvents[i].camId]) >= 3
\* a camera removed and seen again has pulsed on its third call since
C37_Witness ==
    \E i \in Positions(zoneEvents) :
        /\ zoneEvents[i].type = "pulse_zone"
        /\ Len(zoneHistories[zoneEvents[i].camId]) = 3
        /\ zoneHistories[zoneEvents[i].camId][1].timestamp > CHOOSE dt \in CellSteps : TRUE
\* a camera on its second call since it was seen, cell 0 having fallen from 1.5
\* to 0.5 once the start-up dead time is over: no pulse
C37_SecondCallWitness ==
    \E c \in DOMAIN zoneHistories :
        /\ lastOp = Op("updateCamera", c)
        /\ Len(zoneHistories[c]) = 2
        /\ Cell(zoneHistories[c][1].values, 0) = 1500
        /\ Cell(zoneHistories[c][2].values, 0) = 500
        /\ callTime >= pulseCooldownMs
        /\ zoneEvents = <<>>

\* the time the stillness timer runs from after an update that found the room
\* quiet: the start of the unbroken quiet, or the last stillness emitted within it
TimerBase ==
    IF lastEmit.global["stillness"] # None /\ lastEmit.global["stillness"] >= watch.quietSince
    THEN lastEmit.global["stillness"]
    ELSE watch.quietSince

\* C38: a stillness comes at least stillnessDurationMs and at least
\* stillnessCooldownMs after the stillness before it (of the same detector, since
\* it was constructed or last reset); an update that finds the duration reached
\* while the cooldown is running emits nothing and leaves the timer where it was,
\* so that the first update at or after the end of the cooldown emits it
C38_StillnessSpacing ==
    lastOp.op = "update"
    => /\ (CountType(globalEvents, "stillness") > 0 /\ prevEmit.global["stillness"] # None)
          => /\ callTime - prevEmit.global["stillness"] >= stillnessDurationMs
             /\ callTime - prevEmit.global["stillness"] >= stillnessCooldownMs
             /\ stillnessStart = callTime
       /\ (stillnessStart > 0 /\ callTime - stillnessStart >= stillnessDurationMs)
          => /\ CountType(globalEvents, "stillness") = 0
             /\ callTime < lastStillness + stillnessCooldownMs
       /\ watch.quietSince # None => stillnessStart = TimerBase
\* the duration was reached stillnessDurationMs after a stillness, the cooldown
\* still running, and the next stillness has come with the end of the cooldown
C38_Witness ==
    /\ lastOp.op = "update"
    /\ CountType(globalEvents, "stillness") = 1
    /\ prevEmit.global["stillness"] # None
    /\ callTime = prevEmit.global["stillness"] + stillnessCooldownMs
    /\ stillnessCooldownMs > stillnessDurationMs
    /\ stillnessStart = callTime
\* the duration reached while the cooldown runs: nothing emitted, timer kept
C38_WaitingWitness ==
    /\ lastOp.op = "update"
    /\ lastEmit.global["stillness"] # None
    /\ stillnessStart = lastEmit.global["stillness"]
    /\ callTime - stillnessStart >= stillnessDurationMs
    /\ globalEvents = <<>>

\* what a step may do to the history of entity v: leave a suffix of it (nothing
\* dropped, or the oldest dropped by setCapacity), put one sample stamped with the
\* call's timestamp behind a suffix of it (addSample), or erase it (removeVoice)
SuffixStep(v) ==
    LET old == IF v \in DOMAIN histories THEN histories[v] ELSE <<>>
        new == histories'[v]
    IN IF lastOp'.op = "addSample" /\ lastOp'.id = v
       THEN /\ Len(new) >= 1
            /\ Latest(new).timestamp = callTime'
            /\ MostRecentOf(SubSeq(new, 1, Len(new) - 1), old)
            /\ Len(new) = Min2(Len(old) + 1, capacity')
       ELSE /\ MostRecentOf(new, old)
            /\ Len(new) = Min2(Len(old), capacity')

\* C39: an entity's history is at every moment a contiguous suffix, in insertion
\* order, of the samples added for it since it was created or last removed: each
\* step leaves a suffix of what it found, with the sample it adds at the end, so
\* addSample and setCapacity drop none but the oldest and reorder nothing
C39_HistoryIsSuffix ==
    [][\A v \in DOMAIN histories' : SuffixStep(v)]_vars
\* a history of three that lost its oldest sample to setCapacity(2) and then the
\* next oldest to addSample
C39_Witness ==
    /\ lastOp = Op("addSample", 1)
    /\ capacity = 2
    /\ 1 \in DOMAIN watch.before
    /\ Len(watch.before[1]) >= 3
    /\ 1 \in DOMAIN histories
    /\ Len(histories[1]) = 2
    /\ histories[1][1] = Latest(watch.before[1])
    /\ histories[1][2] # histories[1][1]

\* C40: after every tick the ids of the driver's live-voice table are the ids
\* that have a sample history, and every id with a cooldown ledger in the voice
\* detector is among them
C40_BookkeepingInSync ==
    /\ DOMAIN voices = DOMAIN histories
    /\ DOMAIN voiceLastTriggerTimes \subseteq DOMAIN voices
\* voice 1 has disconnected and voice 2 lives on with a history and a ledger
C40_Witness ==
    /\ lastOp = Op("update()", None)
    /\ DOMAIN voices = {2}
    /\ DOMAIN histories = {2}
    /\ DOMAIN voiceLastTriggerTimes = {2}
    /\ voices[2] = clock
\* two voices were live within the room history and none is left
C40_EmptiedWitness ==
    /\ lastOp = Op("update()", None)
    /\ voices = <<>>
    /\ histories = <<>>
    /\ voiceLastTriggerTimes = <<>>
    /\ \E i \in Positions(globalHistory) : globalHistory[i].activeVoices = 2

========================================================================
